---- MODULE Spec2Model ----
(***************************************************************************)
(* A model of the correction-factor table engine of uzg_emu_check:         *)
(* OFTable (src/src/of_table.rs), FdaTable (src/src/fda_table.rs),         *)
(* CorrectionData and load_data (src/src/correction_data.rs), the linear   *)
(* interpolation of src/src/ipol.rs, and the calls made on a loaded        *)
(* collection: get_calc_param_input_cli and calculate_mu (src/src/lib.rs)  *)
(* and CorrectionDataSet::get_zref (src/src/correction_data_set.rs).       *)
(*                                                                         *)
(* Numbers.  The program computes on f64.  Table keys (energies, SSDs,     *)
(* ids) and stored factors are integers of a grid whose step is far above  *)
(* f64::EPSILON; the two extreme finite values f64::MIN and f64::MAX,      *)
(* which get_cf uses as "no bracket found" marks, are the two extreme      *)
(* values of the grid.  Computed factors are exact fractions <<n, d>>,     *)
(* d > 0, in lowest terms: rounding of the f64 operations is not modelled. *)
(***************************************************************************)
EXTENDS Integers, Sequences, FiniteSets, TLC

VARIABLES
    output_factors,   \* CorrectionData.output_factors : OFTable
    fda,              \* CorrectionData.fda : FdaTable
    ret,              \* the last add call made on the tables and what it returned
    of_log,           \* history: the (ssd, ofs) of every add_row that returned Ok
    of_rekeyed,       \* history: set_energies/set_zrefs was called after a row was recorded
    fda_log,          \* history of the aperture table built call by call: the
                      \* (name, id, corrections) of every add that returned Ok
    fda_rekeyed       \* history of the same: set_energies was called after a row was recorded

tvars == <<output_factors, fda, ret, of_log, of_rekeyed, fda_log, fda_rekeyed>>

\* One call of load_data(dirname).
VARIABLES
    pc,               \* where load_data stands
    directory,        \* the directory dirname names, its entries in read_dir order
    vof,              \* the of_ files found by get_list_data_files
    vfda,             \* the fda_ files found by get_list_data_files
    thandles_of,      \* handles of the spawned read_of_table tasks
    thandles_fda,     \* handles of the spawned read_fda_table tasks
    finished,         \* the files whose parse task has run to its end, in that order
    vof_tables,       \* results of the awaited read_of_table tasks
    vfda_tables,      \* results of the awaited read_fda_table tasks
    vcd,              \* the CorrectionData assembled so far
    result            \* what load_data returned

lvars == <<pc, directory, vof, vfda, thandles_of, thandles_fda, finished,
           vof_tables, vfda_tables, vcd, result>>

\* One call on a loaded collection of CorrectionData.
VARIABLES
    data,             \* the collection: CorrectionDataSet.data, the vcd of the CLI
    call              \* the last call made on the collection and what it returned

qvars == <<data, call>>

vars == <<tvars, lvars, qvars>>

\* ------------------------------------------------------------------ numbers

\* std::f64::MAX and std::f64::MIN (= -f64::MAX), the extremes of the grid.
F64_MAX == 1000
F64_MIN == -1000

\* std::usize::MAX
USIZE_MAX == 2147483647

Abs(x) == IF x < 0 THEN -x ELSE x

RECURSIVE Gcd(_, _)
Gcd(a, b) == IF b = 0 THEN a ELSE Gcd(b, a % b)

\* The fraction n/d in lowest terms with a positive denominator.
Frac(n, d) ==
    LET s == IF d < 0 THEN -1 ELSE 1
        g == Gcd(Abs(n), Abs(d))
    IN  IF n = 0 THEN <<0, 1>> ELSE <<(s * n) \div g, (s * d) \div g>>

Rat(i) == <<i, 1>>

RatMul(a, b) == Frac(a[1] * b[1], a[2] * b[2])

\* |d| <= f64::EPSILON and |d| < f64::EPSILON for a difference d of two grid
\* values: the grid step is above EPSILON, so both say d = 0.
AbsLeEpsilon(d) == d = 0
AbsLtEpsilon(d) == d = 0

\* ------------------------------------------------------------------ results

\* Result<f64, EmuError> and Result<(), EmuError>.  num carries Ok's value or
\* the number an error variant holds; msg tells the Logic/Str errors apart.
Ok(v) == [ok |-> TRUE, kind |-> "Ok", num |-> v, msg |-> ""]
OkUnit == [ok |-> TRUE, kind |-> "Ok", num |-> <<0, 1>>, msg |-> ""]
Err(kind, n, msg) == [ok |-> FALSE, kind |-> kind, num |-> Rat(n), msg |-> msg]

EnergyNotFound(e) == Err("EnergyNotFound", e, "")
SSDNotFound(s) == Err("SSDNotFound", s, "")
FdaIDNotFound(id) == Err("FdaIDNotFound", id, "")
Logic(msg) == Err("Logic", 0, msg)
Str(msg) == Err("Str", 0, msg)

\* ------------------------------------------------------------------ ipol.rs

\* The interpolation answering the left value of the bracket.
interpolate_linear_Left(x, x0, x1, y0, y1) == Rat(y0)

interpolate_linear(x, x0, x1, y0, y1) ==
    LET dx == x1 - x0
    IN  IF AbsLeEpsilon(dx) THEN Rat(y0)
        ELSE Frac(y0 * dx + (x - x0) * (y1 - y0), dx)

\* ------------------------------------------------------------------ of_table.rs

Range(s) == {s[i] : i \in 1..Len(s)}

\* The first index of v in s, Len(s) + 1 when there is none.
FirstIndex(s, v) ==
    IF \E i \in 1..Len(s) : s[i] = v
    THEN CHOOSE i \in 1..Len(s) : s[i] = v /\ \A j \in 1..(i - 1) : s[j] # v
    ELSE Len(s) + 1

OFTable_new == [energies |-> <<>>, zrefs |-> <<>>, ssds |-> <<>>, table |-> <<>>]

OFTable_set_energies(t, values) == [t EXCEPT !.energies = values]

OFTable_set_zrefs(t, values) == [t EXCEPT !.zrefs = values]

\* The table after the column loop of add_output_factor_per_ssd has pushed
\* ofs[ic] on the columns ic < upto.
PushColumns(table, ofs, upto) ==
    [ic \in 1..Len(table) |->
        IF ic <= upto THEN Append(table[ic], ofs[ic]) ELSE table[ic]]

\* add_output_factor_per_ssd with the ssd pushed before the length checks.
add_output_factor_per_ssd_PushFirst(t, ssd, ofs) ==
    LET n == Len(ofs)
        p == [t EXCEPT !.ssds = Append(t.ssds, ssd)]
    IN
    IF n # Len(t.energies) THEN [t |-> p, r |-> Str("energies/outputfactors")]
    ELSE IF n # Len(t.zrefs) THEN [t |-> p, r |-> Str("zrefs/outputfactors")]
    ELSE
        LET alloc == IF t.table = <<>> THEN [ic \in 1..Len(t.energies) |-> <<>>]
                     ELSE t.table
            c == Len(alloc)
        IN  IF c < n
            THEN [t |-> [p EXCEPT !.table = PushColumns(alloc, ofs, c)],
                  r |-> Logic("column not available")]
            ELSE [t |-> [p EXCEPT !.table = PushColumns(alloc, ofs, n)],
                  r |-> OkUnit]

\* add_output_factor_per_ssd: the table afterwards (t) and the result (r).
add_output_factor_per_ssd(t, ssd, ofs) ==
    LET n == Len(ofs) IN
    IF n # Len(t.energies) THEN [t |-> t, r |-> Str("energies/outputfactors")]
    ELSE IF n # Len(t.zrefs) THEN [t |-> t, r |-> Str("zrefs/outputfactors")]
    ELSE
        LET alloc == IF t.table = <<>> THEN [ic \in 1..Len(t.energies) |-> <<>>]
                     ELSE t.table
            c == Len(alloc)
        IN  IF c < n
            THEN \* get_mut(c) is None: the ssd and the first c values stay pushed
                 [t |-> [t EXCEPT !.ssds = Append(t.ssds, ssd),
                                  !.table = PushColumns(alloc, ofs, c)],
                  r |-> Logic("column not available")]
            ELSE [t |-> [t EXCEPT !.ssds = Append(t.ssds, ssd),
                                  !.table = PushColumns(alloc, ofs, n)],
                  r |-> OkUnit]

\* A bracket search over storage taken to be sorted: the scan stops at the
\* first row at or above the query and the lower row is the last one at or
\* below it among the rows scanned.
Bracket_Sorted(ssds, ofs, ssd, i) ==
    LET up == {k \in 1..i : ssds[k] >= ssd}
        stop == IF up = {} THEN i ELSE CHOOSE k \in up : \A j \in up : k <= j
        lo == {k \in 1..stop : ssds[k] <= ssd}
        l == IF lo = {} THEN 0 ELSE CHOOSE k \in lo : \A j \in lo : k >= j
    IN  [x0 |-> IF l = 0 THEN F64_MIN ELSE ssds[l],
         y0 |-> IF l = 0 THEN F64_MAX ELSE ofs[l],
         dx0 |-> IF l = 0 THEN F64_MAX ELSE Abs(ssds[l] - ssd),
         x1 |-> IF up = {} THEN F64_MAX ELSE ssds[stop],
         y1 |-> IF up = {} THEN F64_MAX ELSE ofs[stop],
         dx1 |-> IF up = {} THEN F64_MAX ELSE Abs(ssds[stop] - ssd)]

\* The bracket search of get_cf after the rows 1..i have been scanned.
RECURSIVE Bracket(_, _, _, _)
Bracket(ssds, ofs, ssd, i) ==
    IF i = 0
    THEN [x0 |-> F64_MIN, x1 |-> F64_MAX, y0 |-> F64_MAX, y1 |-> F64_MAX,
          dx0 |-> F64_MAX, dx1 |-> F64_MAX]
    ELSE
        LET b == Bracket(ssds, ofs, ssd, i - 1)
            issd == ssds[i]
            dx == Abs(issd - ssd)
            lo == dx <= b.dx0 /\ issd <= ssd
            hi == dx <= b.dx1 /\ issd >= ssd
        IN  [x0 |-> IF lo THEN issd ELSE b.x0,
             y0 |-> IF lo THEN ofs[i] ELSE b.y0,
             dx0 |-> IF lo THEN dx ELSE b.dx0,
             x1 |-> IF hi THEN issd ELSE b.x1,
             y1 |-> IF hi THEN ofs[i] ELSE b.y1,
             dx1 |-> IF hi THEN dx ELSE b.dx1]

\* get_cf without the test of x1 against f64::MAX (lines 123-125).
OFTable_get_cf_NoUpperCheck(t, energy, ssd) ==
    LET energy_idx == FirstIndex(t.energies, energy) IN
    IF energy_idx = Len(t.energies) + 1 THEN EnergyNotFound(energy)
    ELSE IF energy_idx > Len(t.table) THEN Logic("column not found")
    ELSE
        LET ofs == t.table[energy_idx]
            n == Len(ofs)
        IN  IF n # Len(t.ssds) THEN Logic("ssds/outputfactors")
            ELSE
                LET b == Bracket(t.ssds, ofs, ssd, n) IN
                IF b.x0 = F64_MIN THEN SSDNotFound(ssd)
                ELSE Ok(interpolate_linear(ssd, b.x0, b.x1, b.y0, b.y1))

OFTable_get_cf(t, energy, ssd) ==
    LET energy_idx == FirstIndex(t.energies, energy) IN
    IF energy_idx = Len(t.energies) + 1 THEN EnergyNotFound(energy)
    ELSE IF energy_idx > Len(t.table) THEN Logic("column not found")
    ELSE
        LET ofs == t.table[energy_idx]
            n == Len(ofs)
        IN  IF n # Len(t.ssds) THEN Logic("ssds/outputfactors")
            ELSE
                LET b == Bracket(t.ssds, ofs, ssd, n) IN
                IF b.x0 = F64_MIN THEN SSDNotFound(ssd)
                ELSE IF b.x1 = F64_MAX THEN SSDNotFound(ssd)
                ELSE Ok(interpolate_linear(ssd, b.x0, b.x1, b.y0, b.y1))

\* ------------------------------------------------------------------ fda_table.rs

\* An aperture row: name, id and one correction per energy.
FdaRow(name, id, corrections) ==
    [name |-> name, id |-> id, corrections |-> corrections]

FdaTable_new == [names |-> <<>>, ids |-> <<>>, energies |-> <<>>, table |-> <<>>]

FdaTable_set_energies(t, values) == [t EXCEPT !.energies = values]

FdaTable_get_energies(t) == t.energies

\* FdaTable::add with name and id pushed before the length check.
FdaTable_add_PushFirst(t, name, id, corrections) ==
    LET n == Len(t.energies)
        pushed == [t EXCEPT !.names = Append(t.names, name),
                            !.ids = Append(t.ids, id)]
    IN
    IF n # Len(corrections) THEN [t |-> pushed, r |-> Str("energies/correction factors")]
    ELSE
        LET alloc == IF t.table = <<>> THEN [ic \in 1..n |-> <<>>] ELSE t.table
            c == Len(alloc)
        IN  IF c < n
            THEN [t |-> [pushed EXCEPT !.table = PushColumns(alloc, corrections, c)],
                  r |-> Logic("column not available")]
            ELSE [t |-> [pushed EXCEPT !.table = PushColumns(alloc, corrections, n)],
                  r |-> OkUnit]

\* FdaTable::add without the push of the id.
FdaTable_add_NoIdPush(t, name, id, corrections) ==
    LET n == Len(t.energies) IN
    IF n # Len(corrections) THEN [t |-> t, r |-> Str("energies/correction factors")]
    ELSE
        LET alloc == IF t.table = <<>> THEN [ic \in 1..n |-> <<>>] ELSE t.table
            c == Len(alloc)
            pushed == [t EXCEPT !.names = Append(t.names, name)]
        IN  IF c < n
            THEN [t |-> [pushed EXCEPT !.table = PushColumns(alloc, corrections, c)],
                  r |-> Logic("column not available")]
            ELSE [t |-> [pushed EXCEPT !.table = PushColumns(alloc, corrections, n)],
                  r |-> OkUnit]

\* FdaTable::add: the table afterwards (t) and the result (r).
FdaTable_add(t, name, id, corrections) ==
    LET n == Len(t.energies) IN
    IF n # Len(corrections) THEN [t |-> t, r |-> Str("energies/correction factors")]
    ELSE
        LET alloc == IF t.table = <<>> THEN [ic \in 1..n |-> <<>>] ELSE t.table
            c == Len(alloc)
            pushed == [t EXCEPT !.names = Append(t.names, name),
                                !.ids = Append(t.ids, id)]
        IN  IF c < n
            THEN \* get_mut(c) is None: name, id and the first c values stay pushed
                 [t |-> [pushed EXCEPT !.table = PushColumns(alloc, corrections, c)],
                  r |-> Logic("column not available")]
            ELSE [t |-> [pushed EXCEPT !.table = PushColumns(alloc, corrections, n)],
                  r |-> OkUnit]

\* The energy search with energy_idx initialised to the first index instead
\* of nenergies (line 65).
FdaEnergyIndex_InitFirst(energies, energy) ==
    IF \E i \in 1..Len(energies) : AbsLtEpsilon(energy - energies[i])
    THEN CHOOSE i \in 1..Len(energies) :
            /\ AbsLtEpsilon(energy - energies[i])
            /\ \A j \in 1..(i - 1) : ~AbsLtEpsilon(energy - energies[j])
    ELSE 1

\* The first index idx with |energy - energies[idx]| < EPSILON, else Len + 1.
FdaEnergyIndex(energies, energy) ==
    IF \E i \in 1..Len(energies) : AbsLtEpsilon(energy - energies[i])
    THEN CHOOSE i \in 1..Len(energies) :
            /\ AbsLtEpsilon(energy - energies[i])
            /\ \A j \in 1..(i - 1) : ~AbsLtEpsilon(energy - energies[j])
    ELSE Len(energies) + 1

FdaTable_get_cf(t, energy, fda_id) ==
    LET nenergies == Len(t.energies)
        energy_idx == FdaEnergyIndex(t.energies, energy)
    IN  IF energy_idx = nenergies + 1 THEN EnergyNotFound(energy)
        ELSE
            LET fda_idx == FirstIndex(t.ids, fda_id) IN
            IF fda_idx = Len(t.ids) + 1 THEN FdaIDNotFound(fda_id)
            ELSE IF energy_idx > Len(t.table) THEN Logic("energy column not found")
            ELSE IF fda_idx > Len(t.table[energy_idx]) THEN Logic("fda row not found")
            ELSE Ok(Rat(t.table[energy_idx][fda_idx]))

\* ------------------------------------------------------------------ correction_data.rs

\* OFTable::get_energies, the counterpart of FdaTable::get_energies.
OFTable_get_energies(t) == t.energies

\* validate comparing the two energy lists as sets.
validate_SetEquality(of, fd) ==
    Range(OFTable_get_energies(of)) = Range(FdaTable_get_energies(fd))

\* CorrectionData::validate: Vec<f64> equality of the two energy lists.
validate(of, fd) == OFTable_get_energies(of) = FdaTable_get_energies(fd)

\* get_correction_factor returning the output factor without multiplying.
get_correction_factor_NoProduct(of, fd, energy, ssd, fda_id) ==
    LET cf_of == OFTable_get_cf(of, energy, ssd) IN
    IF ~cf_of.ok THEN cf_of
    ELSE
        LET cf_fda == FdaTable_get_cf(fd, energy, fda_id) IN
        IF ~cf_fda.ok THEN cf_fda
        ELSE Ok(cf_of.num)

\* get_correction_factor with the aperture lookup made first.
get_correction_factor_FdaFirst(of, fd, energy, ssd, fda_id) ==
    LET cf_fda == FdaTable_get_cf(fd, energy, fda_id) IN
    IF ~cf_fda.ok THEN cf_fda
    ELSE
        LET cf_of == OFTable_get_cf(of, energy, ssd) IN
        IF ~cf_of.ok THEN cf_of
        ELSE Ok(RatMul(cf_of.num, cf_fda.num))

\* CorrectionData::get_correction_factor on the tables (of, fd).
get_correction_factor(of, fd, energy, ssd, fda_id) ==
    LET cf_of == OFTable_get_cf(of, energy, ssd) IN
    IF ~cf_of.ok THEN cf_of
    ELSE
        LET cf_fda == FdaTable_get_cf(fd, energy, fda_id) IN
        IF ~cf_fda.ok THEN cf_fda
        ELSE Ok(RatMul(cf_of.num, cf_fda.num))

\* ------------------------------------------------------------------ inputs

\* The number of rows a table of the model may hold.
MaxRows == 2

EnergyLists == {<<>>, <<4>>, <<4, 6>>, <<4, 4>>}
ZrefLists == {<<>>, <<1>>, <<1, 2>>}
SsdInputs == {F64_MIN, 1, 2, 4, F64_MAX}
OfsInputs == {<<>>, <<1>>, <<3>>, <<1, 3>>}

EnergyQueries == {4, 6, 8}
SsdQueries == {F64_MIN, 0, 1, 2, 3, 4, 5, F64_MAX}

\* ------------------------------------------------------------------ the OFTable as a state machine

Call(op, r) == [op |-> op, r |-> r]

\* CorrectionData::new(): both tables empty.
NewTables ==
    /\ output_factors = OFTable_new
    /\ fda = FdaTable_new
    /\ ret = Call("new", OkUnit)
    /\ of_log = <<>>
    /\ of_rekeyed = FALSE
    /\ fda_log = <<>>
    /\ fda_rekeyed = FALSE

\* What load_data has returned while it has not returned.
Pending == [ok |-> FALSE, kind |-> "Pending", msg |-> "", vcd |-> <<>>]

\* load_data is not called.
NoLoad ==
    /\ pc = "idle"
    /\ directory = [is_dir |-> FALSE, entries |-> <<>>]
    /\ vof = <<>> /\ vfda = <<>>
    /\ thandles_of = <<>> /\ thandles_fda = <<>>
    /\ finished = <<>>
    /\ vof_tables = <<>> /\ vfda_tables = <<>>
    /\ vcd = <<>>
    /\ result = Pending

\* CalcParam::new
CalcParam_new ==
    [machine |-> "", applicator |-> "", energy |-> 0, ssd |-> 0,
     depth_zref |-> 0, dose_zref |-> 0, planned_beam_mu |-> 0,
     fda_id |-> USIZE_MAX]

\* Option<&CalcParam>
NoParam == [some |-> FALSE, p |-> CalcParam_new]
SomeParam(p) == [some |-> TRUE, p |-> p]

\* A call on the collection: the function (op), where it stands (pc) and the
\* stage it returned at (at), the build profile of the program (build), its
\* arguments (opt_input_params, and energy
\* for the string of get_zref), the calc_param and the position cd of the
\* selected entry built so far, the stages whose question it has put to the terminal
\* (asked), and what it returned (r, and list for a Vec<String>).
NoCall ==
    [op |-> "none", pc |-> "idle", at |-> "", build |-> "debug",
     opt_input_params |-> NoParam,
     energy |-> "", calc_param |-> CalcParam_new, cd |-> 0,
     list |-> <<>>, asked |-> {}, r |-> Err("Pending", 0, "")]

\* No call is made on a collection.
NoCalc ==
    /\ data = <<>>
    /\ call = NoCall

InitTables == NewTables /\ NoLoad /\ NoCalc

OfSetEnergies(values) ==
    /\ output_factors' = OFTable_set_energies(output_factors, values)
    /\ of_rekeyed' = (of_rekeyed \/ output_factors.ssds # <<>>)
    /\ UNCHANGED <<fda, ret, of_log, fda_log, fda_rekeyed, lvars, qvars>>

OfSetZrefs(values) ==
    /\ output_factors' = OFTable_set_zrefs(output_factors, values)
    /\ of_rekeyed' = (of_rekeyed \/ output_factors.ssds # <<>>)
    /\ UNCHANGED <<fda, ret, of_log, fda_log, fda_rekeyed, lvars, qvars>>

OfAddRow(ssd, ofs) ==
    /\ LET a == add_output_factor_per_ssd(output_factors, ssd, ofs) IN
        /\ output_factors' = a.t
        /\ ret' = Call("of_add_row", a.r)
        /\ of_log' = IF a.r.ok
                     THEN Append(of_log, [ssd |-> ssd, ofs |-> ofs])
                     ELSE of_log
    /\ UNCHANGED <<fda, of_rekeyed, fda_log, fda_rekeyed, lvars, qvars>>

NextOF ==
    \/ \E values \in EnergyLists : OfSetEnergies(values)
    \/ \E values \in ZrefLists : OfSetZrefs(values)
    \/ \E ssd \in SsdInputs, ofs \in OfsInputs :
            Len(output_factors.ssds) < MaxRows /\ OfAddRow(ssd, ofs)

SpecOF == InitTables /\ [][NextOF]_vars

\* ------------------------------------------------------------------ claims on the OFTable

Distinct(s) == \A i, j \in 1..Len(s) : s[i] = s[j] => i = j

LogSsds == [k \in 1..Len(of_log) |-> of_log[k].ssd]

\* The table was built by set_energies/set_zrefs followed by add_row calls
\* that all returned Ok, with distinct energies.
BuiltInOrder ==
    /\ ~of_rekeyed
    /\ Len(of_log) = Len(output_factors.ssds)
    /\ Distinct(output_factors.energies)

\* The column of energy e exists and holds one factor per recorded SSD.
ColumnOk(t, e) ==
    LET idx == FirstIndex(t.energies, e) IN
    /\ idx <= Len(t.energies)
    /\ idx <= Len(t.table)
    /\ Len(t.table[idx]) = Len(t.ssds)

\* C1: in a table built in order with distinct energies and distinct SSDs,
\* get_cf(e, s) of every inserted (e, s) returns the inserted value.
C1_ReadAfterWrite ==
    (BuiltInOrder /\ Distinct(LogSsds)) =>
        \A k \in 1..Len(of_log) : \A j \in 1..Len(output_factors.energies) :
            OFTable_get_cf(output_factors, output_factors.energies[j], of_log[k].ssd)
                = Ok(Rat(of_log[k].ofs[j]))

SsdBelowRange(t, s) == \A i \in 1..Len(t.ssds) : s < t.ssds[i]
SsdAboveRange(t, s) == \A i \in 1..Len(t.ssds) : s > t.ssds[i]

\* C2 as stated: for an energy of the table, get_cf(e, s) is SSDNotFound(s)
\* whenever s is below the least or above the greatest recorded SSD, also
\* when no row has been recorded.
C2_AlwaysSSDNotFound ==
    BuiltInOrder =>
        \A e \in Range(output_factors.energies) : \A s \in SsdQueries :
            (SsdBelowRange(output_factors, s) \/ SsdAboveRange(output_factors, s)) =>
                OFTable_get_cf(output_factors, e, s) = SSDNotFound(s)

\* C2 amended: for an energy of the table and s below the least or above the
\* greatest recorded SSD (or no SSD recorded), get_cf(e, s) never returns a
\* value: it is SSDNotFound(s) when the column of e holds one factor per
\* recorded SSD, and a Logic error otherwise, which is always the case when
\* no row has been recorded.
C2_NoExtrapolation ==
    \A e \in Range(output_factors.energies) : \A s \in SsdQueries :
        (SsdBelowRange(output_factors, s) \/ SsdAboveRange(output_factors, s)) =>
            LET r == OFTable_get_cf(output_factors, e, s) IN
            /\ ~r.ok
            /\ ColumnOk(output_factors, e) => r = SSDNotFound(s)
            /\ ~ColumnOk(output_factors, e) => r.kind = "Logic"
            /\ output_factors.ssds = <<>> => r.kind = "Logic"

C2_Witness ==
    /\ Len(output_factors.ssds) >= 2
    /\ \E e \in Range(output_factors.energies) : \E s \in SsdQueries :
        /\ ColumnOk(output_factors, e)
        /\ SsdAboveRange(output_factors, s)
        /\ OFTable_get_cf(output_factors, e, s) = SSDNotFound(s)

\* The factors stored for energy e in the rows whose SSD is x.
StoredAt(t, e, x) ==
    {t.table[FirstIndex(t.energies, e)][i] : i \in {k \in 1..Len(t.ssds) : t.ssds[k] = x}}

\* C3: for an energy of the table and s strictly between two recorded SSDs,
\* get_cf(e, s) is y0 + (s - s0) * (y1 - y0) / (s1 - s0), s0 the greatest
\* recorded SSD <= s, s1 the least recorded SSD >= s, y0 and y1 the factors
\* stored for e at s0 and s1.
C3_InterpolatesBetween ==
    BuiltInOrder =>
        \A e \in Range(output_factors.energies) : \A s \in SsdQueries :
            LET below == {x \in Range(output_factors.ssds) : x < s}
                above == {x \in Range(output_factors.ssds) : x > s}
            IN  (below # {} /\ above # {} /\ s \notin Range(output_factors.ssds)) =>
                    LET s0 == CHOOSE x \in below : \A z \in below : z <= x
                        s1 == CHOOSE x \in above : \A z \in above : x <= z
                        r == OFTable_get_cf(output_factors, e, s)
                    IN  /\ r.ok
                        /\ \E y0 \in StoredAt(output_factors, e, s0) :
                           \E y1 \in StoredAt(output_factors, e, s1) :
                              r.num = Frac(y0 * (s1 - s0) + (s - s0) * (y1 - y0), s1 - s0)

\* ------------------------------------------------------------------ the CorrectionData as a state machine

\* The number of rows each table of a CorrectionData of the model may hold.
MaxCdRows == 2

CdEnergyLists == {<<4>>, <<4, 6>>, <<6, 4>>}
CdZrefLists == {<<1>>, <<1, 2>>}
CdSsdInputs == {1, 4}
CdOfsInputs == {<<1>>, <<3>>, <<1, 3>>}
CdIdInputs == {1}
CdCorrectionInputs == {<<3>>, <<3, 1>>}
CdSsdQueries == {0, 1, 2, 4}
IdQueries == {1, 2}

\* CorrectionData::set_energies
CdSetEnergies(values) ==
    /\ output_factors' = OFTable_set_energies(output_factors, values)
    /\ fda' = FdaTable_set_energies(fda, values)
    /\ of_rekeyed' = (of_rekeyed \/ output_factors.ssds # <<>>)
    /\ UNCHANGED <<ret, of_log, fda_log, fda_rekeyed, lvars, qvars>>

\* FdaTable::set_energies on the public field fda
FdaSetEnergies(values) ==
    /\ fda' = FdaTable_set_energies(fda, values)
    /\ UNCHANGED <<output_factors, ret, of_log, of_rekeyed, fda_log, fda_rekeyed, lvars, qvars>>

\* CorrectionData::add_field_defining_aperture, FdaTable::add
FdaAdd(name, id, corrections) ==
    /\ LET a == FdaTable_add(fda, name, id, corrections) IN
        /\ fda' = a.t
        /\ ret' = Call("fda_add", a.r)
        /\ fda_log' = IF a.r.ok
                      THEN Append(fda_log, FdaRow(name, id, corrections))
                      ELSE fda_log
    /\ UNCHANGED <<output_factors, of_log, of_rekeyed, fda_rekeyed, lvars, qvars>>

\* CorrectionData::add_output_factor_per_ssd; the Result goes to the caller.
CdAddOutputFactorPerSsd(ssd, ofs) ==
    /\ LET a == add_output_factor_per_ssd(output_factors, ssd, ofs) IN
        /\ output_factors' = a.t
        /\ of_log' = IF a.r.ok
                     THEN Append(of_log, [ssd |-> ssd, ofs |-> ofs])
                     ELSE of_log
    /\ UNCHANGED <<fda, ret, of_rekeyed, fda_log, fda_rekeyed, lvars, qvars>>

\* CorrectionData::add_field_defining_aperture; the Result goes to the caller.
CdAddFieldDefiningAperture(name, id, corrections) ==
    /\ fda' = FdaTable_add(fda, name, id, corrections).t
    /\ UNCHANGED <<output_factors, ret, of_log, of_rekeyed, fda_log, fda_rekeyed, lvars, qvars>>

NextCD ==
    \/ \E values \in CdEnergyLists : CdSetEnergies(values)
    \/ \E values \in CdEnergyLists : FdaSetEnergies(values)
    \/ \E values \in CdZrefLists : OfSetZrefs(values)
    \/ \E ssd \in CdSsdInputs, ofs \in CdOfsInputs :
            Len(output_factors.ssds) < MaxCdRows /\ CdAddOutputFactorPerSsd(ssd, ofs)
    \/ \E id \in CdIdInputs, corrections \in CdCorrectionInputs :
            Len(fda.ids) < MaxCdRows
                /\ CdAddFieldDefiningAperture("6x6", id, corrections)

SpecCD == InitTables /\ [][NextCD]_vars

\* ------------------------------------------------------------------ claims on the CorrectionData

C5_ProductOfLookups ==
    \A e \in EnergyQueries : \A s \in CdSsdQueries : \A id \in IdQueries :
        LET a == OFTable_get_cf(output_factors, e, s)
            b == FdaTable_get_cf(fda, e, id)
            r == get_correction_factor(output_factors, fda, e, s, id)
        IN  /\ r.ok <=> (a.ok /\ b.ok)
            /\ r.ok => r.num = Frac(a.num[1] * b.num[1], a.num[2] * b.num[2])

\* An interpolated output factor 5/3 times the aperture factor 3.
C5_Witness ==
    \E e \in EnergyQueries : \E s \in CdSsdQueries : \E id \in IdQueries :
        /\ OFTable_get_cf(output_factors, e, s) = Ok(<<5, 3>>)
        /\ FdaTable_get_cf(fda, e, id) = Ok(<<3, 1>>)
        /\ get_correction_factor(output_factors, fda, e, s, id) = Ok(<<5, 1>>)

\* The SSD s is outside the SSDs recorded for energy e of the output factors.
SsdOutOfRange(t, e, s) ==
    /\ e \in Range(t.energies)
    /\ ColumnOk(t, e)
    /\ t.ssds # <<>>
    /\ (SsdBelowRange(t, s) \/ SsdAboveRange(t, s))

\* C6: get_correction_factor returns the error of the first failing lookup,
\* the output factor lookup being first: SSDNotFound when the SSD is out of
\* range and the id absent too, FdaIDNotFound(id) when only the id is absent.
C6_FirstErrorPropagates ==
    \A e \in EnergyQueries : \A s \in CdSsdQueries : \A id \in IdQueries :
        LET a == OFTable_get_cf(output_factors, e, s)
            b == FdaTable_get_cf(fda, e, id)
            r == get_correction_factor(output_factors, fda, e, s, id)
        IN  /\ ~a.ok => r = a
            /\ (a.ok /\ ~b.ok) => r = b
            /\ (SsdOutOfRange(output_factors, e, s) /\ id \notin Range(fda.ids))
                  => r = SSDNotFound(s)
            /\ (a.ok /\ e \in Range(fda.energies) /\ id \notin Range(fda.ids))
                  => r = FdaIDNotFound(id)

C6_Witness ==
    /\ fda.ids # <<>>
    /\ \E e \in EnergyQueries : \E s \in CdSsdQueries : \E id \in IdQueries :
        /\ e \in Range(fda.energies)
        /\ SsdOutOfRange(output_factors, e, s)
        /\ id \notin Range(fda.ids)
        /\ get_correction_factor(output_factors, fda, e, s, id) = SSDNotFound(s)
    /\ \E e \in EnergyQueries : \E s \in CdSsdQueries : \E id \in IdQueries :
        /\ OFTable_get_cf(output_factors, e, s).ok
        /\ get_correction_factor(output_factors, fda, e, s, id) = FdaIDNotFound(id)

\* C7 as stated: validate() is true exactly when the two tables' energy
\* lists have the same members, whatever their order.
C7_ValidateIsSetEquality ==
    validate(output_factors, fda)
        <=> (Range(output_factors.energies) = Range(fda.energies))

\* C7 amended: validate() is true exactly when the two energy lists are the
\* same sequence (same length, same value at every position); so it is
\* false whenever the members differ, and false too for the same members
\* listed in a different order.
C7_ValidateIsSequenceEquality ==
    LET a == output_factors.energies
        b == fda.energies
    IN  /\ validate(output_factors, fda)
              <=> (Len(a) = Len(b) /\ \A i \in 1..Len(a) : a[i] = b[i])
        /\ Range(a) # Range(b) => ~validate(output_factors, fda)

C7_Witness ==
    /\ Range(output_factors.energies) = Range(fda.energies)
    /\ output_factors.energies # fda.energies
    /\ output_factors.ssds # <<>> /\ fda.ids # <<>>
    /\ ~validate(output_factors, fda)

\* ------------------------------------------------------------------ load_data: files and parsing

\* A directory holds at most MaxFiles entries.
MaxFiles == 4

\* A directory entry: its path, its file name (characters), whether it is a
\* directory, and what a parser finds in it: a readable table file ("valid")
\* with its machine, applicator, energies and table rows, a file that cannot
\* be opened ("unreadable"), or one whose rows are not a table ("malformed").
Entry(path, name, is_dir, content, machine, applicator, energies, rows) ==
    [path |-> path, name |-> name, is_dir |-> is_dir, content |-> content,
     machine |-> machine, applicator |-> applicator, energies |-> energies,
     rows |-> rows]

FilePool ==
    { Entry("d/of_a", <<"o", "f", "_", "a">>, FALSE, "valid", "M1", "A1", <<4>>, <<>>),
      Entry("d/of_b", <<"o", "f", "_", "b">>, FALSE, "valid", "M1", "A2", <<4>>, <<>>),
      Entry("d/of_x", <<"o", "f", "_", "x">>, FALSE, "unreadable", "", "", <<>>, <<>>),
      Entry("d/fda_a", <<"f", "d", "a", "_", "a">>, FALSE, "valid", "M1", "A1", <<4>>,
            <<FdaRow("6x6", 1, <<3>>)>>),
      Entry("d/fda_b", <<"f", "d", "a", "_", "b">>, FALSE, "valid", "M1", "A2", <<6>>,
            <<FdaRow("6x6", 1, <<3>>)>>),
      Entry("d/fda_c", <<"f", "d", "a", "_", "c">>, FALSE, "valid", "M1", "A2", <<4>>,
            <<FdaRow("8x8", 2, <<1>>)>>),
      Entry("d/fda_y", <<"f", "d", "a", "_", "y">>, FALSE, "malformed", "", "", <<>>, <<>>),
      Entry("d/of_d", <<"o", "f", "_", "d">>, TRUE, "valid", "", "", <<>>, <<>>),
      Entry("d/off", <<"o", "f", "f">>, FALSE, "valid", "", "", <<>>, <<>>) }

\* The listings read_dir can give: entries of distinct names, in any order.
Directories ==
    UNION { { d \in [1..n -> FilePool] : Distinct(d) } : n \in 0..MaxFiles }

starts_with(name, prefix) ==
    /\ Len(name) >= Len(prefix)
    /\ SubSeq(name, 1, Len(prefix)) = prefix

\* The of_ test without the skip of the directories.
IsOfFile_Dirs(f) == starts_with(f.name, <<"o", "f", "_">>)

IsOfFile(f) == ~f.is_dir /\ starts_with(f.name, <<"o", "f", "_">>)

IsFdaFile(f) ==
    /\ ~f.is_dir
    /\ ~starts_with(f.name, <<"o", "f", "_">>)
    /\ starts_with(f.name, <<"f", "d", "a", "_">>)

\* Result<Vec<CorrectionData>, EmuError> of load_data.
LoadOk(v) == [ok |-> TRUE, kind |-> "Ok", msg |-> "", vcd |-> v]
LoadErr(kind, msg) == [ok |-> FALSE, kind |-> kind, msg |-> msg, vcd |-> <<>>]

CountMismatchError == LoadErr("Logic", "number of files")
TableMismatchError == LoadErr("Logic", "mismatch between the energies")
NoDataError == LoadErr("IO", "no configuration data was loaded")

\* get_list_data_files of a directory whose entries can all be read.
get_list_data_files(dir) ==
    IF ~dir.is_dir THEN [r |-> LoadErr("DirNotFound", "dirname"), vof |-> <<>>, vfda |-> <<>>]
    ELSE [r |-> LoadOk(<<>>),
          vof |-> SelectSeq(dir.entries, IsOfFile),
          vfda |-> SelectSeq(dir.entries, IsFdaFile)]

\* Result<(String, String, Table), EmuError> of a parse task.  The message
\* of an error is the one the reader gives for that file; the tuple fields
\* of an error hold the values the parser starts from.
ParseOk(machine, applicator, table) ==
    [ok |-> TRUE, kind |-> "Ok", msg |-> "",
     machine |-> machine, applicator |-> applicator, table |-> table]
ParseErr(kind, msg, table) ==
    [ok |-> FALSE, kind |-> kind, msg |-> msg,
     machine |-> "", applicator |-> "", table |-> table]

\* The rows of an FDA file from the i-th on, added to the table (fda_table.add
\* followed by ?): the table afterwards (t) and the first error, if any (r).
RECURSIVE AddFdaRows(_, _, _)
AddFdaRows(t, rows, i) ==
    IF i > Len(rows) THEN [t |-> t, r |-> OkUnit]
    ELSE LET a == FdaTable_add(t, rows[i].name, rows[i].id, rows[i].corrections)
         IN  IF a.r.ok THEN AddFdaRows(a.t, rows, i + 1) ELSE a

read_fda_table(f) ==
    CASE f.content = "unreadable" -> ParseErr("IO", f.path, FdaTable_new)
      [] f.content = "malformed" -> ParseErr("Format", f.path, FdaTable_new)
      [] OTHER ->
            LET a == AddFdaRows(FdaTable_set_energies(FdaTable_new, f.energies),
                                f.rows, 1)
            IN  IF a.r.ok THEN ParseOk(f.machine, f.applicator, a.t)
                ELSE ParseErr(a.r.kind, a.r.msg, FdaTable_new)

read_of_table(f) ==
    CASE f.content = "unreadable" -> ParseErr("IO", f.path, OFTable_new)
      [] f.content = "malformed" -> ParseErr("Format", f.path, OFTable_new)
      [] OTHER -> ParseOk(f.machine, f.applicator,
                          OFTable_set_energies(OFTable_new, f.energies))

\* The error handle.await? makes load_data return.
Propagate(r) == LoadErr(r.kind, r.msg)

\* ------------------------------------------------------------------ load_data as a state machine

CorrectionData_new ==
    [machine |-> "", applicator |-> "",
     output_factors |-> OFTable_new, fda |-> FdaTable_new]

\* nvof != nvfda
CountMismatch_Never(nvof, nvfda) == FALSE

CountMismatch(nvof, nvfda) == nvof # nvfda

\* handle.await gives the task's result once the task has run to its end.
JoinReady_NoWait(f) == TRUE

JoinReady(f) == f.path \in Range(finished)

\* The handle joined in the k-th round when the handles are taken as their
\* tasks end.
JoinNext_Completed(handles, k) ==
    LET paths == {handles[i].path : i \in 1..Len(handles)}
        ended == SelectSeq(finished, LAMBDA p : p \in paths)
    IN  IF k <= Len(ended)
        THEN CHOOSE h \in Range(handles) : h.path = ended[k]
        ELSE handles[k]

\* for handle in thandles: the k-th round joins the k-th handle spawned.
JoinNext(handles, k) == handles[k]

\* The ? after handle.await returns from load_data on an Err.
IsErr_Never(r) == FALSE

IsErr(r) == ~r.ok

\* The loops of load_data in program order; Enter(k, ...) is the first loop
\* from the k-th on that has something to iterate over, the pairing loop
\* (and what follows it) when there is none.
Loops == <<"spawn_of", "spawn_fda", "await_of", "await_fda">>

RECURSIVE Enter(_, _, _)
Enter(k, nvof, nvfda) ==
    IF k > Len(Loops) THEN "pair"
    ELSE IF (IF k \in {1, 3} THEN nvof ELSE nvfda) > 0 THEN Loops[k]
    ELSE Enter(k + 1, nvof, nvfda)

\* The inner loop of the pairing: every matching FDA tuple from the j-th on
\* is assigned to cd.fda in turn.
RECURSIVE PairFda(_, _, _, _)
PairFda(cd, tables, j, nvfda) ==
    IF j > nvfda THEN cd
    ELSE LET t == tables[j]
             hit == /\ t.machine = cd.machine
                    /\ t.applicator = cd.applicator
                    /\ FdaTable_get_energies(t.table)
                         = OFTable_get_energies(cd.output_factors)
         IN  PairFda(IF hit THEN [cd EXCEPT !.fda = t.table] ELSE cd,
                     tables, j + 1, nvfda)

InitLoad ==
    /\ NewTables
    /\ NoCalc
    /\ pc = "start"
    /\ directory \in {[is_dir |-> TRUE, entries |-> d] : d \in Directories}
                     \cup {[is_dir |-> FALSE, entries |-> <<>>]}
    /\ vof = <<>> /\ vfda = <<>>
    /\ thandles_of = <<>> /\ thandles_fda = <<>>
    /\ finished = <<>>
    /\ vof_tables = <<>> /\ vfda_tables = <<>>
    /\ vcd = <<>>
    /\ result = Pending

\* Discovery and the count check.
Start ==
    /\ pc = "start"
    /\ LET l == get_list_data_files(directory) IN
        IF ~l.r.ok
        THEN /\ result' = l.r
             /\ pc' = "done"
             /\ UNCHANGED <<vof, vfda>>
        ELSE /\ vof' = l.vof
             /\ vfda' = l.vfda
             /\ IF CountMismatch(Len(l.vof), Len(l.vfda))
                THEN result' = CountMismatchError /\ pc' = "done"
                ELSE result' = result /\ pc' = Enter(1, Len(l.vof), Len(l.vfda))
    /\ UNCHANGED <<directory, thandles_of, thandles_fda, finished,
                   vof_tables, vfda_tables, vcd, tvars, qvars>>

SpawnOf ==
    /\ pc = "spawn_of"
    /\ LET k == Len(thandles_of) + 1 IN
        /\ thandles_of' = Append(thandles_of, vof[k])
        /\ pc' = IF k = Len(vof) THEN Enter(2, Len(vof), Len(vfda)) ELSE pc
    /\ UNCHANGED <<directory, vof, vfda, thandles_fda, finished,
                   vof_tables, vfda_tables, vcd, result, tvars, qvars>>

SpawnFda ==
    /\ pc = "spawn_fda"
    /\ LET k == Len(thandles_fda) + 1 IN
        /\ thandles_fda' = Append(thandles_fda, vfda[k])
        /\ pc' = IF k = Len(vfda) THEN Enter(3, Len(vof), Len(vfda)) ELSE pc
    /\ UNCHANGED <<directory, vof, vfda, thandles_of, finished,
                   vof_tables, vfda_tables, vcd, result, tvars, qvars>>

\* A spawned task runs its parser to the end, whatever load_data does
\* meanwhile (a task whose handle was dropped keeps running).
TaskRun(f) ==
    /\ f \in Range(thandles_of) \cup Range(thandles_fda)
    /\ f.path \notin Range(finished)
    /\ finished' = Append(finished, f.path)
    /\ UNCHANGED <<pc, directory, vof, vfda, thandles_of, thandles_fda,
                   vof_tables, vfda_tables, vcd, result, tvars, qvars>>

AwaitOf ==
    /\ pc = "await_of"
    /\ LET k == Len(vof_tables) + 1
           handle == JoinNext(thandles_of, k)
           r == read_of_table(handle)
       IN  /\ JoinReady(handle)
           /\ IF IsErr(r)
              THEN /\ result' = Propagate(r)
                   /\ pc' = "done"
                   /\ UNCHANGED vof_tables
              ELSE /\ vof_tables' = Append(vof_tables, r)
                   /\ pc' = IF k = Len(thandles_of)
                            THEN Enter(4, Len(vof), Len(vfda)) ELSE pc
                   /\ UNCHANGED result
    /\ UNCHANGED <<directory, vof, vfda, thandles_of, thandles_fda, finished,
                   vfda_tables, vcd, tvars, qvars>>

AwaitFda ==
    /\ pc = "await_fda"
    /\ LET k == Len(vfda_tables) + 1
           handle == JoinNext(thandles_fda, k)
           r == read_fda_table(handle)
       IN  /\ JoinReady(handle)
           /\ IF IsErr(r)
              THEN /\ result' = Propagate(r)
                   /\ pc' = "done"
                   /\ UNCHANGED vfda_tables
              ELSE /\ vfda_tables' = Append(vfda_tables, r)
                   /\ pc' = IF k = Len(thandles_fda) THEN "pair" ELSE pc
                   /\ UNCHANGED result
    /\ UNCHANGED <<directory, vof, vfda, thandles_of, thandles_fda, finished,
                   vof_tables, vcd, tvars, qvars>>

\* One round of the pairing loop: assemble, pair and validate entry i.
Pair ==
    /\ pc = "pair"
    /\ Len(vcd) < Len(vof)
    /\ LET t == vof_tables[Len(vcd) + 1]
           cd0 == [CorrectionData_new EXCEPT !.machine = t.machine,
                                             !.applicator = t.applicator,
                                             !.output_factors = t.table]
           cd == PairFda(cd0, vfda_tables, 1, Len(vfda))
       IN  IF ~validate(cd.output_factors, cd.fda)
           THEN /\ result' = TableMismatchError
                /\ pc' = "done"
                /\ UNCHANGED vcd
           ELSE /\ vcd' = Append(vcd, cd)
                /\ UNCHANGED <<pc, result>>
    /\ UNCHANGED <<directory, vof, vfda, thandles_of, thandles_fda, finished,
                   vof_tables, vfda_tables, tvars, qvars>>

\* After the pairing loop: the empty check and the return.
Return ==
    /\ pc = "pair"
    /\ Len(vcd) = Len(vof)
    /\ result' = IF vcd = <<>> THEN NoDataError ELSE LoadOk(vcd)
    /\ pc' = "done"
    /\ UNCHANGED <<directory, vof, vfda, thandles_of, thandles_fda, finished,
                   vof_tables, vfda_tables, vcd, tvars, qvars>>

NextLoad ==
    \/ Start
    \/ SpawnOf
    \/ SpawnFda
    \/ \E f \in FilePool : TaskRun(f)
    \/ AwaitOf
    \/ AwaitFda
    \/ Pair
    \/ Return

SpecLoad == InitLoad /\ [][NextLoad]_vars

\* ------------------------------------------------------------------ claims on load_data

\* The regular files of the directory whose name starts with prefix.
FilesWithPrefix(prefix) ==
    {i \in 1..Len(directory.entries) :
        /\ ~directory.entries[i].is_dir
        /\ starts_with(directory.entries[i].name, prefix)}

NoTaskStarted ==
    thandles_of = <<>> /\ thandles_fda = <<>> /\ finished = <<>>

\* C8: once discovery is done in a directory whose of_ files and fda_ files
\* differ in number, load_data has returned the count error and no parse
\* task was spawned or has run.
C8_CountMismatchBeforeParsing ==
    (/\ pc # "start"
     /\ Cardinality(FilesWithPrefix(<<"o", "f", "_">>))
          # Cardinality(FilesWithPrefix(<<"f", "d", "a", "_">>)))
        => /\ pc = "done"
           /\ result = CountMismatchError
           /\ NoTaskStarted

C8_Witness ==
    /\ pc = "done"
    /\ Len(vof) = 2 /\ Len(vfda) = 1
    /\ result = CountMismatchError
    /\ NoTaskStarted

\* Every file found has a task that was spawned, has run to its end and was
\* joined by load_data.
AllJoined ==
    /\ thandles_of = vof /\ thandles_fda = vfda
    /\ \A f \in Range(vof) \cup Range(vfda) : f.path \in Range(finished)
    /\ Len(vof_tables) = Len(vof) /\ Len(vfda_tables) = Len(vfda)

\* load_data is in, or has left through, the pairing phase.
InPairing ==
    \/ pc = "pair"
    \/ vcd # <<>>
    \/ result.ok
    \/ result = TableMismatchError
    \/ result = NoDataError

\* C9: whenever load_data is in the pairing phase, has assembled an entry or
\* has returned from that phase, every parse task has ended and was joined.
C9_PairingAfterAllJoined == InPairing => AllJoined

\* Two entries are being paired, and an FDA task was the first to end.
C9_Witness ==
    /\ pc = "pair"
    /\ Len(vof) = 2 /\ Len(vcd) = 1
    /\ \E f \in Range(vfda) : finished[1] = f.path
    /\ AllJoined

ParseOf(f) == IF IsOfFile(f) THEN read_of_table(f) ELSE read_fda_table(f)

\* The files found whose parse fails.
FailedFiles == {f \in Range(vof) \cup Range(vfda) : ~ParseOf(f).ok}

\* C10: when load_data has returned after spawning the parse tasks and the
\* parse of some file fails, the result is an error, it is the error of a
\* task that has failed, and no CorrectionData is returned.
C10_FailFast ==
    (pc = "done" /\ Len(vof) = Len(vfda) /\ FailedFiles # {})
        => /\ ~result.ok
           /\ result.vcd = <<>>
           /\ \E f \in FailedFiles :
                /\ f.path \in Range(finished)
                /\ result = Propagate(ParseOf(f))

\* An OF and an FDA file fail to parse, two other files parse, the FDA
\* failure came first in time and the OF failure is what load_data returns.
C10_Witness ==
    /\ pc = "done"
    /\ Len(vof) = 2 /\ Len(vfda) = 2
    /\ Cardinality(FailedFiles) = 2
    /\ Len(finished) = 4
    /\ \E f \in FailedFiles : IsFdaFile(f) /\ finished[1] = f.path
    /\ \E f \in FailedFiles : IsOfFile(f) /\ result = Propagate(ParseOf(f))

\* ------------------------------------------------------------------ load_data: the pairing

\* A directory of calibration files holds at most MaxPairFiles entries.
MaxPairFiles == 4

\* Calibration files that all parse: two OF files of the same machine and
\* applicator, an OF file without energy columns, and FDA files that agree
\* or disagree with them.
PairPool ==
    { Entry("d/of_a", <<"o", "f", "_", "a">>, FALSE, "valid", "M1", "A1", <<4>>, <<>>),
      Entry("d/of_a2", <<"o", "f", "_", "a", "2">>, FALSE, "valid", "M1", "A1", <<4>>, <<>>),
      Entry("d/of_b", <<"o", "f", "_", "b">>, FALSE, "valid", "M1", "A2", <<4>>, <<>>),
      Entry("d/of_e", <<"o", "f", "_", "e">>, FALSE, "valid", "M1", "A3", <<>>, <<>>),
      Entry("d/fda_a", <<"f", "d", "a", "_", "a">>, FALSE, "valid", "M1", "A1", <<4>>,
            <<FdaRow("6x6", 1, <<3>>)>>),
      Entry("d/fda_a2", <<"f", "d", "a", "_", "a", "2">>, FALSE, "valid", "M1", "A1", <<4>>,
            <<FdaRow("8x8", 2, <<1>>)>>),
      Entry("d/fda_b", <<"f", "d", "a", "_", "b">>, FALSE, "valid", "M1", "A2", <<6>>,
            <<FdaRow("6x6", 1, <<3>>)>>),
      Entry("d/fda_e", <<"f", "d", "a", "_", "e">>, FALSE, "valid", "M1", "A3", <<6>>,
            <<FdaRow("6x6", 1, <<3>>)>>) }

PairDirectories ==
    UNION { { d \in [1..n -> PairPool] : Distinct(d) } : n \in 0..MaxPairFiles }

InitPairing ==
    /\ NewTables
    /\ NoCalc
    /\ pc = "start"
    /\ directory \in {[is_dir |-> TRUE, entries |-> d] : d \in PairDirectories}
    /\ vof = <<>> /\ vfda = <<>>
    /\ thandles_of = <<>> /\ thandles_fda = <<>>
    /\ finished = <<>>
    /\ vof_tables = <<>> /\ vfda_tables = <<>>
    /\ vcd = <<>>
    /\ result = Pending

NextPairing ==
    \/ Start
    \/ SpawnOf
    \/ SpawnFda
    \/ \E f \in PairPool : TaskRun(f)
    \/ AwaitOf
    \/ AwaitFda
    \/ Pair
    \/ Return

SpecPairing == InitPairing /\ [][NextPairing]_vars

\* ------------------------------------------------------------------ claims on the pairing

\* The OF file o and the FDA file f are the only files found for their
\* machine and applicator.
OnlyFilesOfPair(o, f) ==
    /\ o.machine = f.machine /\ o.applicator = f.applicator
    /\ \A g \in Range(vof) :
         (g.machine = o.machine /\ g.applicator = o.applicator) => g = o
    /\ \A g \in Range(vfda) :
         (g.machine = o.machine /\ g.applicator = o.applicator) => g = f

\* C11: when the OF file and the FDA file of some (machine, applicator)
\* list different energies, load_data returns an error and no collection,
\* also when the OF file lists no energy.
C11_EnergyDisagreementFails ==
    (/\ pc = "done"
     /\ \E o \in Range(vof) : \E f \in Range(vfda) :
            /\ OnlyFilesOfPair(o, f)
            /\ o.energies # f.energies)
        => (~result.ok /\ result.vcd = <<>>)

\* The parsed FDA tuple t pairs with the parsed OF tuple o.
Matches(o, t) ==
    /\ t.machine = o.machine
    /\ t.applicator = o.applicator
    /\ t.table.energies = o.table.energies

\* C12: when load_data has paired and some parsed OF tuple has no matching
\* FDA tuple, the result is the table mismatch error; and every entry of a
\* successful result holds the table of an FDA file of its own machine and
\* applicator.
C12_UnmatchedOfFails ==
    /\ (/\ pc = "done" /\ AllJoined
        /\ \E i \in 1..Len(vof_tables) :
             \A j \in 1..Len(vfda_tables) : ~Matches(vof_tables[i], vfda_tables[j]))
          => result = TableMismatchError
    /\ (pc = "done" /\ result.ok)
          => \A k \in 1..Len(result.vcd) :
                \E f \in Range(vfda) :
                    /\ f.machine = result.vcd[k].machine
                    /\ f.applicator = result.vcd[k].applicator
                    /\ read_fda_table(f).table = result.vcd[k].fda

\* C13: no two entries of a successful result have the same machine and
\* applicator.
C13_NoDuplicatePair ==
    (pc = "done" /\ result.ok)
        => \A k, l \in 1..Len(result.vcd) :
              (/\ result.vcd[k].machine = result.vcd[l].machine
               /\ result.vcd[k].applicator = result.vcd[l].applicator) => k = l

\* ------------------------------------------------------------------ the FdaTable as a state machine

\* The aperture table holds at most MaxFdaRows rows.
MaxFdaRows == 2

FdaEnergyLists == {<<>>, <<4>>, <<4, 6>>}
FdaNameInputs == {"6x6", "8x8"}
FdaIdInputs == {1, 2}
FdaCorrectionInputs == {<<>>, <<1>>, <<3>>, <<3, 1>>}

\* FdaTable::set_energies on a table built call by call.
FdaTableSetEnergies(values) ==
    /\ fda' = FdaTable_set_energies(fda, values)
    /\ fda_rekeyed' = (fda_rekeyed \/ fda.ids # <<>>)
    /\ UNCHANGED <<output_factors, ret, of_log, of_rekeyed, fda_log, lvars, qvars>>

NextFDA ==
    \/ \E values \in FdaEnergyLists : FdaTableSetEnergies(values)
    \/ \E name \in FdaNameInputs, id \in FdaIdInputs,
          corrections \in FdaCorrectionInputs :
            Len(fda.ids) < MaxFdaRows /\ FdaAdd(name, id, corrections)

SpecFDA == InitTables /\ [][NextFDA]_vars

\* ------------------------------------------------------------------ claims on the shape of the tables

\* C14: the ids of the aperture table are all different, and add with an id
\* the table holds already returns an error.
C14_DuplicateIdRejected ==
    /\ Distinct(fda.ids)
    /\ \A name \in FdaNameInputs, corrections \in FdaCorrectionInputs :
         \A i \in 1..Len(fda.ids) :
            ~FdaTable_add(fda, name, fda.ids[i], corrections).r.ok

\* C15: add_output_factor_per_ssd and FdaTable::add called with a number of
\* values that differs from the number of energies return the length error
\* and leave the table as it was.
C15_ShapeMismatchRejected ==
    /\ \A ssd \in SsdInputs, ofs \in OfsInputs :
         Len(ofs) # Len(output_factors.energies) =>
            LET a == add_output_factor_per_ssd(output_factors, ssd, ofs) IN
            a.r = Str("energies/outputfactors") /\ a.t = output_factors
    /\ \A name \in FdaNameInputs, id \in FdaIdInputs,
          corrections \in FdaCorrectionInputs :
         Len(corrections) # Len(fda.energies) =>
            LET a == FdaTable_add(fda, name, id, corrections) IN
            a.r = Str("energies/correction factors") /\ a.t = fda

\* Both tables hold rows and energies, and both reject some input.
C15_Witness ==
    /\ Len(output_factors.ssds) = 2 /\ Len(output_factors.energies) = 2
    /\ Len(fda.ids) = 2 /\ Len(fda.energies) = 2
    /\ \E ofs \in OfsInputs :
         /\ Len(ofs) = 1
         /\ add_output_factor_per_ssd(output_factors, 1, ofs).r
              = Str("energies/outputfactors")
    /\ \E corrections \in FdaCorrectionInputs :
         /\ Len(corrections) = 1
         /\ FdaTable_add(fda, "6x6", 2, corrections).r
              = Str("energies/correction factors")

\* Once a row is recorded the output factors have one column per energy and
\* one value per SSD in every column.
OfShape ==
    output_factors.ssds # <<>> =>
        /\ Len(output_factors.table) = Len(output_factors.energies)
        /\ \A e \in 1..Len(output_factors.table) :
             Len(output_factors.table[e]) = Len(output_factors.ssds)

FdaColumns ==
    fda.ids # <<>> =>
        \A e \in 1..Len(fda.table) : Len(fda.table[e]) = Len(fda.ids)

\* C17 as stated: names and ids are as many, and every column has one value
\* per id, after any sequence of calls.
C17_FdaShapeAlways == Len(fda.names) = Len(fda.ids) /\ FdaColumns

\* C17 amended: names and ids are always as many; every column has one
\* value per id as long as set_energies has not been called after a row was
\* recorded.
C17_FdaShapeBuiltInOrder ==
    /\ Len(fda.names) = Len(fda.ids)
    /\ ~fda_rekeyed => FdaColumns

\* A row recorded in order in two columns, and the add after it was refused.
C17_Witness ==
    /\ ~fda_rekeyed
    /\ Len(fda.ids) = 1 /\ Len(fda.table) = 2
    /\ ret.op = "fda_add" /\ ~ret.r.ok
    /\ FdaColumns

\* C18: in an aperture table built in order with distinct energies,
\* get_cf(e, id) returns the value of every inserted (e, id), EnergyNotFound
\* for an absent energy and FdaIDNotFound for an absent id of a present
\* energy.
C18_ExactMatchLookup ==
    /\ (~fda_rekeyed /\ Len(fda_log) = Len(fda.ids) /\ Distinct(fda.energies)) =>
          \A k \in 1..Len(fda_log) : \A j \in 1..Len(fda.energies) :
              FdaTable_get_cf(fda, fda.energies[j], fda_log[k].id)
                  = Ok(Rat(fda_log[k].corrections[j]))
    /\ \A e \in EnergyQueries : \A id \in FdaIdInputs \cup {3} :
          /\ e \notin Range(fda.energies)
                => FdaTable_get_cf(fda, e, id) = EnergyNotFound(e)
          /\ (e \in Range(fda.energies) /\ id \notin Range(fda.ids))
                => FdaTable_get_cf(fda, e, id) = FdaIDNotFound(id)

\* ------------------------------------------------------------------ lib.rs: the prompts

Terminal(msg) == Err("Terminal", 0, msg)
CorrectionDataNotFound == Err("CorrectionDataNotFound", 0, "")

\* A panic of the thread: an unwrap on None, an arithmetic overflow.
Panic(msg) == Err("Panic", 0, msg)

\* What the terminal hands to a prompt: a failure of the terminal ("io"), a
\* line that is no number ("text"), or the line of the number n.
\* The numbers typed are at most MaxTyped.
MaxTyped == 2

IoFailure == [line |-> "io", n |-> 0]
Typed == {IoFailure, [line |-> "text", n |-> 0]}
            \cup {[line |-> "num", n |-> n] : n \in 0..MaxTyped}

\* question_with_options: Ok holds the 0-based index ans - 1.  For ans = 0 the
\* usize subtraction panics in a debug build and wraps in a release build.
\* "Again" stands for one more turn of the loop.
question_with_options(build, ans, options) ==
    IF ans.line = "io" THEN Terminal("io")
    ELSE IF ans.line = "text" THEN Terminal("parse")
    ELSE IF ans.n >= 1 \/ ans.n <= Len(options)
         THEN IF ans.n >= 1 THEN Ok(Rat(ans.n - 1))
              ELSE IF build = "debug" THEN Panic("attempt to subtract with overflow")
              ELSE Ok(Rat(USIZE_MAX))
         ELSE Err("Again", 0, "")

\* question_parse_res::<f64>
question_parse_res(ans) ==
    IF ans.line = "io" THEN Terminal("io")
    ELSE IF ans.line = "text" THEN Terminal("parse")
    ELSE Ok(Rat(ans.n))

\* ------------------------------------------------------------------ calc_param.rs

has_machine(p) == p.machine # ""
has_applicator(p) == p.applicator # ""
has_energy(p) == p.energy # 0
has_ssd(p) == p.ssd # 0
has_depth_zref(p) == p.depth_zref # 0
has_dose_zref(p) == p.dose_zref # 0
has_planned_beam_mu(p) == p.planned_beam_mu # 0
has_fda_id(p) == p.fda_id # USIZE_MAX

\* ------------------------------------------------------------------ lib.rs: get_calc_param_input_cli

\* The values of s in the order of their first occurrence.
RECURSIVE Dedup(_)
Dedup(s) ==
    IF s = <<>> THEN <<>>
    ELSE LET h == Dedup(SubSeq(s, 1, Len(s) - 1))
         IN  IF s[Len(s)] \in Range(h) THEN h ELSE Append(h, s[Len(s)])

\* The machines of the slice v (vcd in the source), each once.
MachinesOf(v) == Dedup([i \in 1..Len(v) |-> v[i].machine])

\* The applicators of the entries of v of this machine, each once.
ApplicatorsOf(v, machine) ==
    LET OfMachine(cd) == cd.machine = machine
        sel == SelectSeq(v, OfMachine)
    IN  Dedup([i \in 1..Len(sel) |-> sel[i].applicator])

\* The loop over v that selects the entry of (machine, applicator): i is
\* the position examined, idx the position found so far (Len(v) + 1 for
\* none).  Ok holds the position.
RECURSIVE select_correction_data(_, _, _, _, _)
select_correction_data(v, machine, applicator, i, idx) ==
    IF i > Len(v)
    THEN IF idx = Len(v) + 1 THEN CorrectionDataNotFound ELSE Ok(Rat(idx))
    ELSE IF v[i].machine = machine /\ v[i].applicator = applicator
         THEN IF idx = Len(v) + 1
              THEN select_correction_data(v, machine, applicator, i + 1, i)
              ELSE Logic("Multiple correction data matches found")
         ELSE select_correction_data(v, machine, applicator, i + 1, idx)

\* The call returns r at the stage it stands at.
Return_(c, r) == [c EXCEPT !.at = c.pc, !.pc = "done", !.r = r]

\* The call after the question of a stage was put to the terminal.
Asked(c, stage) == [c EXCEPT !.asked = c.asked \cup {stage}]

\* options.get(idx).unwrap() after a prompt answered q: the option, or the
\* panic of the unwrap.
Picked(q, options) ==
    IF q.num[1] >= Len(options) THEN [ok |-> FALSE, at |-> 0]
    ELSE [ok |-> TRUE, at |-> q.num[1] + 1]

\* Machine stage.
cli_machine(v, c, ans) ==
    LET machines == MachinesOf(v)
        opt == c.opt_input_params
    IN  IF Len(machines) = 0 THEN Return_(c, Str("No machines found"))
        ELSE IF opt.some /\ has_machine(opt.p)
        THEN [c EXCEPT !.calc_param.machine = opt.p.machine, !.pc = "applicator"]
        ELSE LET q == question_with_options(c.build, ans, machines) IN
             IF q.kind = "Again" THEN Asked(c, "machine")
             ELSE IF ~q.ok THEN Return_(Asked(c, "machine"), q)
             ELSE IF ~Picked(q, machines).ok THEN Return_(Asked(c, "machine"), Panic("unwrap on None"))
             ELSE [Asked(c, "machine") EXCEPT !.calc_param.machine = machines[Picked(q, machines).at],
                            !.pc = "applicator"]

\* After the applicator is known: the selection of the entry.
cli_select(v, c) ==
    LET r == select_correction_data(v, c.calc_param.machine,
                                    c.calc_param.applicator, 1, Len(v) + 1)
        s == [c EXCEPT !.pc = "select"]
    IN  IF ~r.ok THEN Return_(s, r)
        ELSE [c EXCEPT !.cd = r.num[1], !.pc = "energy"]

\* Applicator stage and the selection that follows it.
cli_applicator(v, c, ans) ==
    LET vapp == ApplicatorsOf(v, c.calc_param.machine)
        opt == c.opt_input_params
    IN  IF Len(vapp) = 0 THEN Return_(c, Str("No applicators found"))
        ELSE IF opt.some /\ has_applicator(opt.p)
        THEN cli_select(v, [c EXCEPT !.calc_param.applicator = opt.p.applicator])
        ELSE LET q == question_with_options(c.build, ans, vapp) IN
             IF q.kind = "Again" THEN Asked(c, "applicator")
             ELSE IF ~q.ok THEN Return_(Asked(c, "applicator"), q)
             ELSE IF ~Picked(q, vapp).ok THEN Return_(Asked(c, "applicator"), Panic("unwrap on None"))
             ELSE cli_select(v,
                    [Asked(c, "applicator") EXCEPT !.calc_param.applicator = vapp[Picked(q, vapp).at]])

\* Energy stage.  The loop that fills venergy and vzref unwraps zrefs.get(i)
\* for the first occurrence i of every energy.
cli_energy(v, c, ans) ==
    LET cd == v[c.cd]
        energies == cd.output_factors.energies
        zrefs == cd.output_factors.zrefs
        venergy == Dedup(energies)
        vzref == [k \in 1..Len(venergy) |-> zrefs[FirstIndex(energies, venergy[k])]]
        opt == c.opt_input_params
    IN  IF \E k \in 1..Len(venergy) : FirstIndex(energies, venergy[k]) > Len(zrefs)
        THEN Return_(c, Panic("unwrap on None"))
        ELSE IF Len(venergy) = 0 THEN Return_(c, Str("No energy found"))
        ELSE IF opt.some /\ has_energy(opt.p) /\ has_depth_zref(opt.p)
        THEN IF opt.p.energy \notin Range(venergy)
             THEN Return_([c EXCEPT !.calc_param.energy = opt.p.energy,
                                    !.calc_param.depth_zref = opt.p.depth_zref],
                          Str("No valid energy was selected"))
             ELSE [c EXCEPT !.calc_param.energy = opt.p.energy,
                            !.calc_param.depth_zref = opt.p.depth_zref,
                            !.pc = "fda"]
        ELSE LET q == question_with_options(c.build, ans, venergy) IN
             IF q.kind = "Again" THEN Asked(c, "energy")
             ELSE IF ~q.ok THEN Return_(Asked(c, "energy"), q)
             ELSE IF ~Picked(q, venergy).ok THEN Return_(Asked(c, "energy"), Panic("unwrap on None"))
             ELSE [Asked(c, "energy") EXCEPT !.calc_param.energy = venergy[Picked(q, venergy).at],
                            !.calc_param.depth_zref = vzref[Picked(q, venergy).at],
                            !.pc = "fda"]

\* Aperture stage.
cli_fda(v, c, ans) ==
    LET cd == v[c.cd]
        ids == cd.fda.ids
        opt == c.opt_input_params
    IN  IF Len(cd.fda.names) < Len(ids) THEN Return_(c, Panic("unwrap on None"))
        ELSE IF Len(ids) = 0 THEN Return_(c, Str("No FDA IDs found"))
        ELSE IF opt.some /\ has_fda_id(opt.p)
        THEN [c EXCEPT !.calc_param.fda_id = opt.p.fda_id, !.pc = "ssd"]
        ELSE LET q == question_with_options(c.build, ans, ids) IN
             IF q.kind = "Again" THEN Asked(c, "fda")
             ELSE IF ~q.ok THEN Return_(Asked(c, "fda"), q)
             ELSE IF ~Picked(q, ids).ok THEN Return_(Asked(c, "fda"), Panic("unwrap on None"))
             ELSE [Asked(c, "fda") EXCEPT !.calc_param.fda_id = ids[Picked(q, ids).at], !.pc = "ssd"]

\* SSD stage.
cli_ssd(c, ans) ==
    LET opt == c.opt_input_params IN
    IF opt.some /\ has_ssd(opt.p)
    THEN [c EXCEPT !.calc_param.ssd = opt.p.ssd, !.pc = "dose"]
    ELSE LET q == question_parse_res(ans) IN
         IF ~q.ok THEN Return_(Asked(c, "ssd"), q)
         ELSE [Asked(c, "ssd") EXCEPT !.calc_param.ssd = q.num[1], !.pc = "dose"]

\* Dose stage.
cli_dose(c, ans) ==
    LET opt == c.opt_input_params IN
    IF opt.some /\ has_dose_zref(opt.p)
    THEN [c EXCEPT !.calc_param.dose_zref = opt.p.dose_zref, !.pc = "mu"]
    ELSE LET q == question_parse_res(ans) IN
         IF ~q.ok THEN Return_(Asked(c, "dose"), q)
         ELSE [Asked(c, "dose") EXCEPT !.calc_param.dose_zref = q.num[1], !.pc = "mu"]

\* Planned MU stage and the Ok((calc_param, cd)) after it.
cli_mu(c, ans) ==
    LET opt == c.opt_input_params IN
    IF opt.some /\ has_planned_beam_mu(opt.p)
    THEN Return_([c EXCEPT !.calc_param.planned_beam_mu = opt.p.planned_beam_mu], OkUnit)
    ELSE LET q == question_parse_res(ans) IN
         IF ~q.ok THEN Return_(Asked(c, "mu"), q)
         ELSE Return_([Asked(c, "mu") EXCEPT !.calc_param.planned_beam_mu = q.num[1]], OkUnit)

\* ------------------------------------------------------------------ lib.rs: calculate_mu

\* The f64 quotient a / b of two finite values: a fraction, or <<1, 0>> for
\* +inf, <<-1, 0>> for -inf and <<0, 0>> for NaN when b is 0.
F64Div(a, b) ==
    IF b[1] = 0
    THEN <<(IF a[1] > 0 THEN 1 ELSE IF a[1] < 0 THEN -1 ELSE 0), 0>>
    ELSE Frac(a[1] * b[2], a[2] * b[1])

calculate_mu(calc_param, cd) ==
    LET f == get_correction_factor(cd.output_factors, cd.fda, calc_param.energy,
                                   calc_param.ssd, calc_param.fda_id)
    IN  IF ~f.ok THEN f ELSE Ok(F64Div(Rat(calc_param.dose_zref), f.num))

\* ------------------------------------------------------------------ correction_data_set.rs

\* The loop of get_machines from position i on, v the names pushed so far,
\* without the contains test.
RECURSIVE get_machines_loop_NoContains(_, _, _)
get_machines_loop_NoContains(d, i, v) ==
    IF i > Len(d) THEN v
    ELSE get_machines_loop_NoContains(d, i + 1, Append(v, d[i].machine))

\* The loop of get_machines from position i on, v the names pushed so far.
RECURSIVE get_machines_loop(_, _, _)
get_machines_loop(d, i, v) ==
    IF i > Len(d) THEN v
    ELSE get_machines_loop(d, i + 1,
            IF d[i].machine \in Range(v) THEN v ELSE Append(v, d[i].machine))

\* get_machines pushing every machine it meets.
get_machines_NoContains(d) == get_machines_loop_NoContains(d, 1, <<>>)

\* CorrectionDataSet::get_machines
get_machines(d) == get_machines_loop(d, 1, <<>>)

\* CorrectionData::get_energies_as_ref
get_energies_as_ref(cd) == cd.output_factors.energies

\* The loop of get_applicators without the test of the energy.
RECURSIVE get_applicators_loop_NoEnergy(_, _, _, _, _)
get_applicators_loop_NoEnergy(d, machine, energy, i, v) ==
    IF i > Len(d) THEN v
    ELSE get_applicators_loop_NoEnergy(d, machine, energy, i + 1,
            IF /\ d[i].machine = machine
               /\ d[i].applicator \notin Range(v)
            THEN Append(v, d[i].applicator)
            ELSE v)

\* The loop of get_applicators from position i on, v the names pushed so far.
RECURSIVE get_applicators_loop(_, _, _, _, _)
get_applicators_loop(d, machine, energy, i, v) ==
    IF i > Len(d) THEN v
    ELSE get_applicators_loop(d, machine, energy, i + 1,
            IF /\ d[i].machine = machine
               /\ energy \in Range(get_energies_as_ref(d[i]))
               /\ d[i].applicator \notin Range(v)
            THEN Append(v, d[i].applicator)
            ELSE v)

\* get_applicators without the test of the energy.
get_applicators_NoEnergy(d, machine, energy) ==
    get_applicators_loop_NoEnergy(d, machine, energy, 1, <<>>)

\* CorrectionDataSet::get_applicators
get_applicators(d, machine, energy) == get_applicators_loop(d, machine, energy, 1, <<>>)

\* Option<f64>
Some(z) == [ok |-> TRUE, kind |-> "Some", num |-> Rat(z), msg |-> ""]
None == Err("None", 0, "")

\* str::parse::<f64> on the strings the callers pass.
parse_f64(str) ==
    CASE str = "4" -> [ok |-> TRUE, v |-> 4]
      [] str = "6" -> [ok |-> TRUE, v |-> 6]
      [] str = "8" -> [ok |-> TRUE, v |-> 8]
      [] OTHER -> [ok |-> FALSE, v |-> 0]

\* CorrectionData::get_zref: the depth aligned with the first occurrence of
\* the energy, none when the energy is not present.
CorrectionData_get_zref(cd, energy) ==
    LET i == FirstIndex(cd.output_factors.energies, energy) IN
    IF i > Len(cd.output_factors.energies) \/ i > Len(cd.output_factors.zrefs)
    THEN None
    ELSE Some(cd.output_factors.zrefs[i])

\* CorrectionData::get_energies
CorrectionData_get_energies(cd) == cd.output_factors.energies

\* The loop of CorrectionDataSet::get_zref from position i on.
RECURSIVE get_zref_loop(_, _, _, _, _)
get_zref_loop(v, machine, applicator, energy_, i) ==
    IF i > Len(v) THEN None
    ELSE IF /\ v[i].machine = machine
            /\ energy_ \in Range(CorrectionData_get_energies(v[i]))
            /\ v[i].applicator = applicator
         THEN CorrectionData_get_zref(v[i], energy_)
         ELSE get_zref_loop(v, machine, applicator, energy_, i + 1)

\* CorrectionDataSet::get_zref
get_zref(v, machine, applicator, energy) ==
    LET p == parse_f64(energy) IN
    IF p.ok THEN get_zref_loop(v, machine, applicator, p.v, 1) ELSE None

\* ------------------------------------------------------------------ calls on a loaded collection

\* The collection holds at most MaxData entries.
MaxData == 3

\* The entries a collection is made of: two of the same (machine,
\* applicator) with different energies, depths and factors, one with two
\* energies and
\* a literal zero in its aperture table, one of another machine with a
\* literal zero among its output factors.
CdPool ==
    { [machine |-> "M1", applicator |-> "A1",
       output_factors |-> [energies |-> <<4>>, zrefs |-> <<1>>, ssds |-> <<1>>,
                           table |-> <<<<3>>>>],
       fda |-> [names |-> <<"6x6">>, ids |-> <<1>>, energies |-> <<4>>,
                table |-> <<<<2>>>>]],
      [machine |-> "M1", applicator |-> "A1",
       output_factors |-> [energies |-> <<6>>, zrefs |-> <<2>>, ssds |-> <<1>>,
                           table |-> <<<<1>>>>],
       fda |-> [names |-> <<"6x6">>, ids |-> <<1>>, energies |-> <<6>>,
                table |-> <<<<1>>>>]],
      [machine |-> "M1", applicator |-> "A2",
       output_factors |-> [energies |-> <<4, 6>>, zrefs |-> <<1, 2>>, ssds |-> <<1>>,
                           table |-> <<<<3>>, <<1>>>>],
       fda |-> [names |-> <<"6x6", "8x8">>, ids |-> <<1, 2>>, energies |-> <<4, 6>>,
                table |-> <<<<2, 0>>, <<1, 0>>>>]],
      [machine |-> "M2", applicator |-> "A1",
       output_factors |-> [energies |-> <<6>>, zrefs |-> <<2>>, ssds |-> <<1>>,
                           table |-> <<<<0>>>>],
       fda |-> [names |-> <<"6x6">>, ids |-> <<1>>, energies |-> <<6>>,
                table |-> <<<<3>>>>]] }

DataSets == UNION {[1..n -> CdPool] : n \in 0..MaxData}

\* The opt_input_params of a call: none, all fields given (the aperture with
\* the zero), machine and applicator only, an applicator no entry of the
\* machine has, a machine no entry has, an energy without its depth.
OptParams ==
    {NoParam} \cup
    { SomeParam(p) : p \in
        { [CalcParam_new EXCEPT !.machine = "M1", !.applicator = "A2", !.energy = 4,
                                !.ssd = 1, !.depth_zref = 1, !.dose_zref = 3,
                                !.planned_beam_mu = 2, !.fda_id = 2],
          [CalcParam_new EXCEPT !.machine = "M1", !.applicator = "A1"],
          [CalcParam_new EXCEPT !.machine = "M1", !.applicator = "A9"],
          [CalcParam_new EXCEPT !.machine = "M9"],
          [CalcParam_new EXCEPT !.energy = 6] } }

Builds == {"debug", "release"}
MachineArgs == {"M1", "M2", "M9"}
ApplicatorArgs == {"A1", "A2", "A9"}
EnergyArgs == {"4", "6", "8", "abc"}

Cli == "get_calc_param_input_cli"

CliStart(build, opt) ==
    /\ call.pc = "idle"
    /\ call' = [NoCall EXCEPT !.op = Cli, !.pc = "machine", !.build = build,
                              !.opt_input_params = opt]
    /\ UNCHANGED <<data, tvars, lvars>>

CliMachine(ans) ==
    /\ call.op = Cli /\ call.pc = "machine"
    /\ call' = cli_machine(data, call, ans)
    /\ UNCHANGED <<data, tvars, lvars>>

CliApplicator(ans) ==
    /\ call.op = Cli /\ call.pc = "applicator"
    /\ call' = cli_applicator(data, call, ans)
    /\ UNCHANGED <<data, tvars, lvars>>

CliEnergy(ans) ==
    /\ call.op = Cli /\ call.pc = "energy"
    /\ call' = cli_energy(data, call, ans)
    /\ UNCHANGED <<data, tvars, lvars>>

CliFda(ans) ==
    /\ call.op = Cli /\ call.pc = "fda"
    /\ call' = cli_fda(data, call, ans)
    /\ UNCHANGED <<data, tvars, lvars>>

CliSsd(ans) ==
    /\ call.op = Cli /\ call.pc = "ssd"
    /\ call' = cli_ssd(call, ans)
    /\ UNCHANGED <<data, tvars, lvars>>

CliDose(ans) ==
    /\ call.op = Cli /\ call.pc = "dose"
    /\ call' = cli_dose(call, ans)
    /\ UNCHANGED <<data, tvars, lvars>>

CliMu(ans) ==
    /\ call.op = Cli /\ call.pc = "mu"
    /\ call' = cli_mu(call, ans)
    /\ UNCHANGED <<data, tvars, lvars>>

\* load_data_calc_mu: calculate_mu on what get_calc_param_input_cli returned.
CalculateMu ==
    /\ call.op = Cli /\ call.pc = "done" /\ call.r.ok
    /\ call' = [call EXCEPT !.op = "calculate_mu", !.at = "calculate_mu",
                            !.r = calculate_mu(call.calc_param, data[call.cd])]
    /\ UNCHANGED <<data, tvars, lvars>>

GetZref(machine, applicator, energy) ==
    /\ call.pc = "idle"
    /\ call' = [NoCall EXCEPT !.op = "get_zref", !.pc = "done", !.at = "get_zref",
                              !.calc_param.machine = machine,
                              !.calc_param.applicator = applicator,
                              !.energy = energy,
                              !.r = get_zref(data, machine, applicator, energy)]
    /\ UNCHANGED <<data, tvars, lvars>>

GetMachines ==
    /\ call.pc = "idle"
    /\ call' = [NoCall EXCEPT !.op = "get_machines", !.pc = "done",
                              !.at = "get_machines",
                              !.list = get_machines(data), !.r = OkUnit]
    /\ UNCHANGED <<data, tvars, lvars>>

GetApplicators(machine, energy) ==
    /\ call.pc = "idle"
    /\ call' = [NoCall EXCEPT !.op = "get_applicators", !.pc = "done",
                              !.at = "get_applicators",
                              !.calc_param.machine = machine,
                              !.calc_param.energy = energy,
                              !.list = get_applicators(data, machine, energy),
                              !.r = OkUnit]
    /\ UNCHANGED <<data, tvars, lvars>>

InitCalc ==
    /\ NewTables
    /\ NoLoad
    /\ data \in DataSets
    /\ call = NoCall

NextCalc ==
    \/ \E build \in Builds, opt \in OptParams : CliStart(build, opt)
    \/ \E ans \in Typed : CliMachine(ans)
    \/ \E ans \in Typed : CliApplicator(ans)
    \/ \E ans \in Typed : CliEnergy(ans)
    \/ \E ans \in Typed : CliFda(ans)
    \/ \E ans \in Typed : CliSsd(ans)
    \/ \E ans \in Typed : CliDose(ans)
    \/ \E ans \in Typed : CliMu(ans)
    \/ CalculateMu
    \/ \E machine \in MachineArgs, applicator \in ApplicatorArgs,
          energy \in EnergyArgs : GetZref(machine, applicator, energy)
    \/ GetMachines
    \/ \E machine \in MachineArgs, energy \in EnergyQueries :
            GetApplicators(machine, energy)

SpecCalc == InitCalc /\ [][NextCalc]_vars

\* ------------------------------------------------------------------ claims on the calls

\* The entries of data of (machine, applicator).
MatchesOf(machine, applicator) ==
    {i \in 1..Len(data) :
        data[i].machine = machine /\ data[i].applicator = applicator}

\* The CLI call has made its selection of the entry.
SelectionMade ==
    /\ call.op \in {Cli, "calculate_mu"}
    /\ \/ call.pc \in {"energy", "fda", "ssd", "dose", "mu"}
       \/ call.pc = "done"
            /\ call.at \in {"select", "energy", "fda", "ssd", "dose", "mu", "calculate_mu"}

\* C19: once get_calc_param_input_cli has selected for (machine, applicator),
\* and once get_zref has returned, the call has failed with the
\* multiple-matches error when more than one entry of the collection has
\* that (machine, applicator), and with the not-found outcome when none has.
C19_ExactlyOneMatch ==
    LET n == Cardinality(MatchesOf(call.calc_param.machine, call.calc_param.applicator))
    IN  /\ SelectionMade =>
            /\ n > 1 => call.r = Logic("Multiple correction data matches found")
            /\ n = 0 => call.r = CorrectionDataNotFound
        /\ (call.op = "get_zref" /\ call.pc = "done") =>
            /\ n > 1 => (~call.r.ok /\ call.r.kind = "Logic")
            /\ n = 0 => call.r = None

\* The selection of the CLI alone, as C19 states it.
C19_CliSelection ==
    LET n == Cardinality(MatchesOf(call.calc_param.machine, call.calc_param.applicator))
    IN  SelectionMade =>
            /\ n > 1 => call.r = Logic("Multiple correction data matches found")
            /\ n = 0 => call.r = CorrectionDataNotFound

\* C20: calculate_mu on a resolved correction factor f returns
\* dose_zref / f when f is not 0, and returns an error or a value that is
\* flagged as invalid, no Ok number, when f is 0.
C20_ZeroFactorFails ==
    (call.op = "calculate_mu") =>
        LET cd == data[call.cd]
            p == call.calc_param
            f == get_correction_factor(cd.output_factors, cd.fda, p.energy,
                                       p.ssd, p.fda_id)
        IN  f.ok =>
              /\ f.num[1] # 0 =>
                    call.r = Ok(Frac(p.dose_zref * f.num[2], f.num[1]))
              /\ f.num[1] = 0 => ~call.r.ok

\* The quotient of C20 alone: dose_zref / f for a factor that is not 0.
C20_Quotient ==
    (call.op = "calculate_mu") =>
        LET cd == data[call.cd]
            p == call.calc_param
            f == get_correction_factor(cd.output_factors, cd.fda, p.energy,
                                       p.ssd, p.fda_id)
        IN  (f.ok /\ f.num[1] # 0) =>
                call.r = Ok(Frac(p.dose_zref * f.num[2], f.num[1]))

\* ------------------------------------------------------------------ the table of build_corr_table

\* The numbers of this table on the grid: an SSD s cm is (s - 90) * 10, an
\* output factor f is f * 1000, an aperture correction c is c * 10, so a
\* correction factor is in units of 1/10000; a dose d is d * 10000, which
\* makes dose / factor the MU itself.  Lookup, bracket search and
\* interpolation only compare and subtract SSDs, so the shift of the SSDs
\* changes none of their outcomes.
ScenarioEnergies == <<4, 6, 8, 10, 12>>
ScenarioZrefs == <<89, 136, 181, 231, 278>>

ScenarioRows ==
    << [ssd |-> 50,  ofs |-> <<865, 953, 994, 1006, 1037>>],
       [ssd |-> 55,  ofs |-> <<856, 945, 986, 995, 1026>>],
       [ssd |-> 60,  ofs |-> <<843, 931, 973, 982, 1011>>],
       [ssd |-> 70,  ofs |-> <<818, 902, 946, 957, 982>>],
       [ssd |-> 80,  ofs |-> <<792, 874, 919, 932, 953>>],
       [ssd |-> 90,  ofs |-> <<764, 846, 892, 906, 926>>],
       [ssd |-> 100, ofs |-> <<736, 818, 865, 880, 899>>],
       [ssd |-> 150, ofs |-> <<619, 704, 753, 775, 791>>],
       [ssd |-> 200, ofs |-> <<526, 613, 663, 688, 706>>],
       [ssd |-> 250, ofs |-> <<442, 533, 584, 614, 630>>] >>

ScenarioApertures ==
    << FdaRow("6x6", 1, <<9, 8, 7, 6, 5>>),
       FdaRow("4x6", 3, <<19, 18, 17, 16, 15>>),
       FdaRow("4x4", 10, <<29, 28, 27, 26, 25>>) >>

\* The queries made on the table: SSDs 94.0, 95.0, 95.5, 99.2, 100.0, 114.0,
\* 115.0 and 116.0 cm, doses 50.0 and 100.0 cGy.
ScenarioSsdQueries == {40, 50, 55, 92, 100, 240, 250, 260}
ScenarioIdQueries == {1, 3, 5, 10}
ScenarioDoses == {500000, 1000000}

\* build_corr_table is at its end.
ScenarioBuilt ==
    /\ output_factors.energies = ScenarioEnergies
    /\ output_factors.zrefs = ScenarioZrefs
    /\ Len(output_factors.ssds) = Len(ScenarioRows)
    /\ Len(fda.ids) = Len(ScenarioApertures)

\* table.set_energies(vec![4.0, 6.0, 8.0, 10.0, 12.0])
ScenarioSetEnergies ==
    /\ output_factors.energies = <<>>
    /\ CdSetEnergies(ScenarioEnergies)

\* table.set_zrefs(vec![0.89, 1.36, 1.81, 2.31, 2.78])
ScenarioSetZrefs ==
    /\ output_factors.energies # <<>> /\ output_factors.zrefs = <<>>
    /\ OfSetZrefs(ScenarioZrefs)

\* The next table.add_output_factor_per_ssd(..) of build_corr_table.
ScenarioAddRow ==
    /\ output_factors.zrefs # <<>>
    /\ Len(output_factors.ssds) < Len(ScenarioRows)
    /\ LET row == ScenarioRows[Len(output_factors.ssds) + 1]
       IN  CdAddOutputFactorPerSsd(row.ssd, row.ofs)

\* The next table.add_field_defining_aperture(..) of build_corr_table.
ScenarioAddAperture ==
    /\ Len(output_factors.ssds) = Len(ScenarioRows)
    /\ Len(fda.ids) < Len(ScenarioApertures)
    /\ LET row == ScenarioApertures[Len(fda.ids) + 1]
       IN  CdAddFieldDefiningAperture(row.name, row.id, row.corrections)

\* calculate_mu on the built table, as test_calc calls it.
ScenarioCalculateMu(energy, ssd, fda_id, dose_zref) ==
    /\ ScenarioBuilt
    /\ LET p == [CalcParam_new EXCEPT !.machine = "Synergy2", !.applicator = "6x6",
                                      !.energy = energy, !.ssd = ssd,
                                      !.dose_zref = dose_zref, !.fda_id = fda_id]
           cd == [machine |-> "Synergy2", applicator |-> "6x6",
                  output_factors |-> output_factors, fda |-> fda]
       IN  call' = [NoCall EXCEPT !.op = "calculate_mu", !.pc = "done",
                                  !.at = "test_calc", !.calc_param = p,
                                  !.r = calculate_mu(p, cd)]
    /\ UNCHANGED <<data, tvars, lvars>>

NextScenario ==
    \/ ScenarioSetEnergies
    \/ ScenarioSetZrefs
    \/ ScenarioAddRow
    \/ ScenarioAddAperture
    \/ \E energy \in Range(ScenarioEnergies), ssd \in ScenarioSsdQueries,
          fda_id \in ScenarioIdQueries, dose_zref \in ScenarioDoses :
            ScenarioCalculateMu(energy, ssd, fda_id, dose_zref)

SpecScenario == InitTables /\ [][NextScenario]_vars

\* calculate_mu has answered the query of the scenario: energy 12.0, SSD
\* 99.2, aperture id 10, dose 100.0.
ScenarioAnswered ==
    /\ call.op = "calculate_mu" /\ call.at = "test_calc"
    /\ call.calc_param.energy = 12 /\ call.calc_param.ssd = 92
    /\ call.calc_param.fda_id = 10 /\ call.calc_param.dose_zref = 1000000

\* get_correction_factor(12.0, 99.2, 10) is the output factor interpolated
\* between the rows of 99.0 and 100.0, times 2.5.
ScenarioFactor ==
    get_correction_factor(output_factors, fda, 12, 92, 10)
        = Ok(RatMul(Frac(926 * 10 + (92 - 90) * (899 - 926), 10), Rat(25)))

\* C21 as stated: the factor is the interpolated output factor times 2.5,
\* and the MU of dose 100.0 is the plan value 110.841642761819 within
\* f32::EPSILON, so its thousandths are 110841.
C21_PlanValue ==
    ScenarioAnswered =>
        /\ ScenarioFactor
        /\ call.r.ok
        /\ (call.r.num[1] * 1000) \div call.r.num[2] = 110841

\* C21 amended: the factor is the interpolated output factor 0.9206 times
\* 2.5, that is 2.3015, and the MU of dose 100.0 is 100.0 / 2.3015.
C21_ScenarioValue ==
    ScenarioAnswered =>
        /\ ScenarioFactor
        /\ call.r = Ok(Frac(1000000, 23015))

C21_Witness == ScenarioAnswered /\ call.r.ok

\* ------------------------------------------------------------------ claims on the lists of the collection

\* C22: get_machines returns every machine of the collection once, in the
\* order of the first occurrences, and no other name.
C22_MachinesUniqueFirstSeen ==
    call.op = "get_machines" =>
        LET v == call.list
            First(m) == FirstIndex([i \in 1..Len(data) |-> data[i].machine], m)
        IN  /\ Range(v) = {data[i].machine : i \in 1..Len(data)}
            /\ Distinct(v)
            /\ \A j, k \in 1..Len(v) : j < k => First(v[j]) < First(v[k])

\* A machine occurs again after another one, and get_machines has returned.
C22_Witness ==
    /\ call.op = "get_machines"
    /\ Len(data) = 3
    /\ data[1].machine = "M2" /\ data[2].machine = "M1" /\ data[3].machine = "M2"
    /\ call.list = <<"M2", "M1">>

\* C23: get_applicators(machine, energy) returns, each once, the applicators
\* of the entries of that machine whose energies hold the energy; and the
\* entry selected for (machine, a), a returned, never answers EnergyNotFound
\* for that energy.
C23_ApplicatorsOfferEnergy ==
    call.op = "get_applicators" =>
        LET v == call.list
            machine == call.calc_param.machine
            energy == call.calc_param.energy
        IN  /\ Distinct(v)
            /\ Range(v) = {data[i].applicator : i \in
                             {j \in 1..Len(data) :
                                 /\ data[j].machine = machine
                                 /\ energy \in Range(data[j].output_factors.energies)}}
            /\ \A k \in 1..Len(v) :
                 LET r == select_correction_data(data, machine, v[k], 1, Len(data) + 1)
                 IN  r.ok =>
                       \A ssd \in CdSsdQueries, id \in IdQueries :
                          get_correction_factor(data[r.num[1]].output_factors,
                                                data[r.num[1]].fda,
                                                energy, ssd, id).kind
                              # "EnergyNotFound"

\* Two applicators of the machine offer the energy and a third entry of the
\* machine does not; get_applicators has returned the two.
C23_Witness ==
    /\ call.op = "get_applicators"
    /\ call.calc_param.machine = "M1" /\ call.calc_param.energy = 4
    /\ Len(data) = 3
    /\ \E i \in 1..3 : data[i].machine = "M1" /\ 4 \notin Range(data[i].output_factors.energies)
    /\ Len(call.list) = 2

\* ------------------------------------------------------------------ claims on discovery and pairing

\* The paths of the entries of the directory that are regular files whose
\* name starts with the prefix.
PathsWithPrefix(prefix) ==
    {directory.entries[i].path : i \in FilesWithPrefix(prefix)}

\* C24: after discovery the OF set holds the regular files named of_.., the
\* FDA set the regular files named fda_.., and no other entry of the
\* directory is in a set, is handed to a parse task or is counted.
C24_PrefixClassification ==
    (pc # "start" /\ directory.is_dir) =>
        /\ {f.path : f \in Range(vof)} = PathsWithPrefix(<<"o", "f", "_">>)
        /\ {f.path : f \in Range(vfda)} = PathsWithPrefix(<<"f", "d", "a", "_">>)
        /\ Len(vof) = Cardinality(PathsWithPrefix(<<"o", "f", "_">>))
        /\ Len(vfda) = Cardinality(PathsWithPrefix(<<"f", "d", "a", "_">>))
        /\ \A p \in Range(finished) :
              p \in PathsWithPrefix(<<"o", "f", "_">>)
                      \cup PathsWithPrefix(<<"f", "d", "a", "_">>)
        /\ (result = CountMismatchError) <=> (Len(vof) # Len(vfda))

\* A directory of an of_ file, an fda_ file, a sub-directory named of_.. and
\* a file of another name has been loaded.
C24_Witness ==
    /\ pc = "done" /\ result.ok
    /\ Len(directory.entries) = 4
    /\ \E i \in 1..4 : directory.entries[i].is_dir
    /\ \E i \in 1..4 : directory.entries[i].path = "d/off"
    /\ Len(vof) = 1 /\ Len(vfda) = 1
    /\ Len(finished) = 2

\* The positions of the parsed FDA tuples that pair with the k-th parsed OF
\* tuple.
MatchesAt(k) ==
    {j \in 1..Len(vfda_tables) : Matches(vof_tables[k], vfda_tables[j])}

\* C25: the aperture table of every assembled entry whose OF tuple has
\* matching FDA tuples is the table of the first of them in the parsed FDA
\* sequence.
C25_FirstMatchAttached ==
    \A k \in 1..Len(vcd) :
        MatchesAt(k) # {} =>
            LET first == CHOOSE j \in MatchesAt(k) : \A i \in MatchesAt(k) : j <= i
            IN  vcd[k].fda = vfda_tables[first].table

\* The table attached is the one of the last matching FDA tuple.
C25_LastMatchAttached ==
    \A k \in 1..Len(vcd) :
        MatchesAt(k) # {} =>
            LET last == CHOOSE j \in MatchesAt(k) : \A i \in MatchesAt(k) : j >= i
            IN  vcd[k].fda = vfda_tables[last].table

\* ------------------------------------------------------------------ claims on row order and refused rows

\* The permutations of 1..n.
Perms(n) == {p \in [1..n -> 1..n] : \A i, j \in 1..n : p[i] = p[j] => i = j}

\* The table t after add_output_factor_per_ssd of the first i rows.
RECURSIVE BuildRows(_, _, _)
BuildRows(t, rows, i) ==
    IF i = 0 THEN t
    ELSE add_output_factor_per_ssd(BuildRows(t, rows, i - 1),
                                   rows[i].ssd, rows[i].ofs).t

\* The table keyed like output_factors, without rows.
KeyedEmpty ==
    [OFTable_new EXCEPT !.energies = output_factors.energies,
                        !.zrefs = output_factors.zrefs]

C27_FailedAddAtomic ==
    /\ \A ssd \in CdSsdInputs, ofs \in CdOfsInputs :
          LET a == add_output_factor_per_ssd(output_factors, ssd, ofs)
          IN  ~a.r.ok => a.t = output_factors
    /\ \A id \in CdIdInputs, corrections \in CdCorrectionInputs :
          LET a == FdaTable_add(fda, "6x6", id, corrections)
          IN  ~a.r.ok => a.t = fda

\* An add_row refused by a length check leaves the table as it was.
C27_RefusedByLengthAtomic ==
    /\ \A ssd \in CdSsdInputs, ofs \in CdOfsInputs :
          LET a == add_output_factor_per_ssd(output_factors, ssd, ofs)
          IN  a.r.kind = "Str" => a.t = output_factors
    /\ \A id \in CdIdInputs, corrections \in CdCorrectionInputs :
          LET a == FdaTable_add(fda, "6x6", id, corrections)
          IN  a.r.kind = "Str" => a.t = fda

\* ------------------------------------------------------------------ claims on the order of the parse tasks

\* The least element of a non-empty set of numbers.
Least(S) == CHOOSE k \in S : \A j \in S : k <= j

\* What load_data returns when every task is run and joined one after the
\* other in the order of the discovered lists, OF files first.
SequentialLoad(dir) ==
    LET l == get_list_data_files(dir)
        n == Len(l.vof)
        ot == [k \in 1..n |-> read_of_table(l.vof[k])]
        ft == [k \in 1..Len(l.vfda) |-> read_fda_table(l.vfda[k])]
        oe == {k \in 1..n : ~ot[k].ok}
        fe == {k \in 1..Len(l.vfda) : ~ft[k].ok}
        cds == [k \in 1..n |->
                  PairFda([CorrectionData_new EXCEPT
                              !.machine = ot[k].machine,
                              !.applicator = ot[k].applicator,
                              !.output_factors = ot[k].table],
                          ft, 1, n)]
    IN  IF ~l.r.ok THEN l.r
        ELSE IF n # Len(l.vfda) THEN CountMismatchError
        ELSE IF oe # {} THEN Propagate(ot[Least(oe)])
        ELSE IF fe # {} THEN Propagate(ft[Least(fe)])
        ELSE IF \E k \in 1..n : ~validate(cds[k].output_factors, cds[k].fda)
             THEN TableMismatchError
        ELSE IF n = 0 THEN NoDataError
        ELSE LoadOk(cds)

\* C28: whatever the order in which the parse tasks ended, load_data returns
\* what the directory fixes: on success one entry per OF file in the order
\* of the discovered OF files, on failure the error of the first failing
\* task in join order, OF files before FDA files.
C28_OutcomeFixedByDirectory ==
    pc = "done" =>
        /\ result = SequentialLoad(directory)
        /\ result.ok =>
              /\ Len(result.vcd) = Len(vof)
              /\ \A k \in 1..Len(vof) :
                    /\ result.vcd[k].machine = vof[k].machine
                    /\ result.vcd[k].applicator = vof[k].applicator

\* A load of two OF files and two FDA files has succeeded although the
\* tasks ended in another order than they were spawned: an FDA task first,
\* then the task of the second OF file.
C28_Witness ==
    /\ pc = "done" /\ result.ok
    /\ Len(vof) = 2 /\ Len(finished) = 4
    /\ finished[1] \in {f.path : f \in Range(vfda)}
    /\ finished[2] = vof[2].path
    /\ vof[1].applicator # vof[2].applicator

\* A load has failed with the error of an OF file although the task of a
\* failing FDA file ended first.
C28_FailureWitness ==
    /\ pc = "done" /\ ~result.ok
    /\ Len(vof) = 2 /\ finished # <<>>
    /\ ~read_of_table(vof[2]).ok
    /\ \E k \in 1..Len(vfda) :
          ~read_fda_table(vfda[k]).ok /\ finished[1] = vfda[k].path
    /\ result = Propagate(read_of_table(vof[2]))

\* ------------------------------------------------------------------ claims on the prompts

\* get_calc_param_input_cli stands at the machine prompt.
AtMachinePrompt ==
    /\ call.op = Cli /\ call.pc = "machine"
    /\ ~(call.opt_input_params.some /\ has_machine(call.opt_input_params.p))

\* C29: at the machine prompt over a non-empty list of machines,
\* question_with_options neither underflows nor returns an index outside
\* the list whatever is typed, it asks again on an answer of 0 or above the
\* number of options, and get_calc_param_input_cli never panics there.
C29_OptionIndexInRange ==
    /\ \A ans \in Typed :
          LET options == MachinesOf(data)
              q == question_with_options(call.build, ans, options)
          IN  (AtMachinePrompt /\ options # <<>>) =>
                /\ q.kind # "Panic"
                /\ q.ok => Picked(q, options).ok
                /\ (ans.line = "num" /\ (ans.n = 0 \/ ans.n > Len(options)))
                      => q.kind = "Again"
    /\ (call.op = Cli /\ call.pc = "done" /\ call.at = "machine")
          => call.r.kind # "Panic"

\* question_with_options never asks again: every number typed ends the loop.
C29_EveryNumberAccepted ==
    \A build \in Builds, ans \in Typed :
        question_with_options(build, ans, MachinesOf(data)).kind # "Again"

\* get_calc_param_input_cli was called with input parameters.
CliWithParams ==
    /\ call.op \in {Cli, "calculate_mu"}
    /\ call.opt_input_params.some

\* get_calc_param_input_cli has returned Ok((calc_param, cd)).
CliResolved ==
    \/ call.op = Cli /\ call.pc = "done" /\ call.r.ok
    \/ call.op = "calculate_mu"

\* C30: no question is put for a field that is set in the input
\* parameters, the energy included when depth_zref is unset; every such
\* field has the given value in the calc_param returned; and with all
\* fields set no question is put at all.
C30_SuppliedFieldsCarried ==
    CliWithParams =>
        LET p == call.opt_input_params.p
            q == call.calc_param
        IN  /\ has_machine(p) => "machine" \notin call.asked
            /\ has_applicator(p) => "applicator" \notin call.asked
            /\ has_energy(p) => "energy" \notin call.asked
            /\ has_fda_id(p) => "fda" \notin call.asked
            /\ has_ssd(p) => "ssd" \notin call.asked
            /\ has_dose_zref(p) => "dose" \notin call.asked
            /\ has_planned_beam_mu(p) => "mu" \notin call.asked
            /\ CliResolved =>
                  /\ has_machine(p) => q.machine = p.machine
                  /\ has_applicator(p) => q.applicator = p.applicator
                  /\ has_energy(p) => q.energy = p.energy
                  /\ has_depth_zref(p) => q.depth_zref = p.depth_zref
                  /\ has_fda_id(p) => q.fda_id = p.fda_id
                  /\ has_ssd(p) => q.ssd = p.ssd
                  /\ has_dose_zref(p) => q.dose_zref = p.dose_zref
                  /\ has_planned_beam_mu(p) => q.planned_beam_mu = p.planned_beam_mu

\* The same with the energy and depth_zref taken as given only when both
\* are set.
C30_CarriedWithEnergyPair ==
    CliWithParams =>
        LET p == call.opt_input_params.p
            q == call.calc_param
            pair == has_energy(p) /\ has_depth_zref(p)
        IN  /\ has_machine(p) => "machine" \notin call.asked
            /\ has_applicator(p) => "applicator" \notin call.asked
            /\ pair => "energy" \notin call.asked
            /\ has_fda_id(p) => "fda" \notin call.asked
            /\ has_ssd(p) => "ssd" \notin call.asked
            /\ has_dose_zref(p) => "dose" \notin call.asked
            /\ has_planned_beam_mu(p) => "mu" \notin call.asked
            /\ CliResolved =>
                  /\ has_machine(p) => q.machine = p.machine
                  /\ has_applicator(p) => q.applicator = p.applicator
                  /\ pair => q.energy = p.energy /\ q.depth_zref = p.depth_zref
                  /\ has_fda_id(p) => q.fda_id = p.fda_id
                  /\ has_ssd(p) => q.ssd = p.ssd
                  /\ has_dose_zref(p) => q.dose_zref = p.dose_zref
                  /\ has_planned_beam_mu(p) => q.planned_beam_mu = p.planned_beam_mu
                  /\ (pair /\ has_machine(p) /\ has_applicator(p) /\ has_fda_id(p)
                        /\ has_ssd(p) /\ has_dose_zref(p) /\ has_planned_beam_mu(p))
                        => call.asked = {}

\* The energy given without depth_zref is one of the entry selected, was
\* asked for all the same, and another energy of the entry was taken.
C30_EnergyReplaced ==
    /\ CliWithParams /\ CliResolved
    /\ has_energy(call.opt_input_params.p)
    /\ call.opt_input_params.p.energy
          \in Range(data[call.cd].output_factors.energies)
    /\ "energy" \in call.asked
    /\ call.calc_param.energy # call.opt_input_params.p.energy

====
